---- MODULE Spec2Model ----
(***************************************************************************)
(* Model of the multi-PID query/response engine of pi_mcp2515:             *)
(*   core/datalogger.py          DataLogger (chunker, parser, poll loop)    *)
(*   core/wireless_obd_adapter.py WirelessOBDAdapter / WirelessOBDConnection*)
(*   scripts/obd_socketcan_probe.py  decode formulas of the common PIDs     *)
(***************************************************************************)
EXTENDS Integers, Sequences, FiniteSets, TLC

(***************************************************************************)
(* Bounds of the model                                                     *)
(***************************************************************************)
\* longest list handed to chunker (13 = two full groups and a partial one)
MaxBatchLen == 13
\* longest reply body (bytes after the first byte) handed to the parser
MaxBodyLen == 7
\* longest body of a reply that does not start with the mode byte
MaxBadBodyLen == 2
\* the wireless adapter's clock runs over 0..MaxTime seconds
MaxTime == 7
\* background workers the wireless adapter may start in one run
MaxWorkers == 2
\* HTTP requests the wireless adapter may send in one run
MaxRequests == 5

(***************************************************************************)
(* Python helpers                                                          *)
(***************************************************************************)
Min(a, b) == IF a < b THEN a ELSE b

\* seq[a:b] with 0-based, end-exclusive, clamped Python slice semantics
Slice(seq, a, b) == SubSeq(seq, a + 1, Min(b, Len(seq)))

\* the empty dict {}
EmptyDict == [k \in {} |-> 0]

\* d[k] = v on a dict
DictPut(d, k, v) == [x \in (DOMAIN d) \cup {k} |-> IF x = k THEN v ELSE d[x]]

RECURSIVE Concat(_)
Concat(ss) == IF ss = <<>> THEN <<>> ELSE Head(ss) \o Concat(Tail(ss))

\* all sequences over S of length 0..n
SeqsUpTo(S, n) == UNION {[1..k -> S] : k \in 0..n}

(***************************************************************************)
(* PID catalog: the command objects (name, pid, bytes, decode) that the     *)
(* logger takes from obd.commands.  bytes counts mode + pid + value bytes.  *)
(* The decoder divides the raw big-endian integer by den and adds off.      *)
(***************************************************************************)
commands ==
  [ ENGINE_LOAD     |-> [name |-> "ENGINE_LOAD",     pid |-> 4,  bytes |-> 3, off |-> 0, den |-> 1],
    COOLANT_TEMP    |-> [name |-> "COOLANT_TEMP",    pid |-> 5,  bytes |-> 3, off |-> 0 - 40, den |-> 1],
    INTAKE_PRESSURE |-> [name |-> "INTAKE_PRESSURE", pid |-> 11, bytes |-> 3, off |-> 0, den |-> 1],
    RPM             |-> [name |-> "RPM",             pid |-> 12, bytes |-> 4, off |-> 0, den |-> 4],
    SPEED           |-> [name |-> "SPEED",           pid |-> 13, bytes |-> 3, off |-> 0, den |-> 1],
    INTAKE_TEMP     |-> [name |-> "INTAKE_TEMP",     pid |-> 15, bytes |-> 3, off |-> 0 - 40, den |-> 1],
    MAF             |-> [name |-> "MAF",             pid |-> 16, bytes |-> 4, off |-> 0, den |-> 1],
    THROTTLE_POS    |-> [name |-> "THROTTLE_POS",    pid |-> 17, bytes |-> 3, off |-> 0, den |-> 1],
    BAROMETRIC_PRESSURE |->
      [name |-> "BAROMETRIC_PRESSURE", pid |-> 51, bytes |-> 3, off |-> 0, den |-> 1] ]

CommandNames == DOMAIN commands

RECURSIVE BytesToInt(_)
BytesToInt(bs) ==
  IF bs = <<>> THEN 0 ELSE 256 * BytesToInt(SubSeq(bs, 1, Len(bs) - 1)) + bs[Len(bs)]

\* command.decode([message]): the decoders read message.data[2:], the bytes
\* after mode and pid (RPM ((A<<8)+B)/4, Speed A, Coolant A - 40)
\* The value is the fraction num/den: den is 4 for RPM and 1 otherwise.
decode_unscaled(command, data) ==
  [num |-> BytesToInt(SubSeq(data, 3, Len(data))) + command.off, den |-> 1]

decode(command, data) ==
  [num |-> BytesToInt(SubSeq(data, 3, Len(data))) + command.off * command.den,
   den |-> command.den]

(***************************************************************************)
(* Hex strings: a str of hex digits is the sequence of its digit values.    *)
(***************************************************************************)
\* m.hex().decode(): two digits per byte, high digit first
RECURSIVE hex(_)
hex(bs) == IF bs = <<>> THEN <<>> ELSE <<Head(bs) \div 16, Head(bs) % 16>> \o hex(Tail(bs))

\* int(two_digits, 16)
IntOfHex(h) == 16 * h[1] + h[2]

\* bytearray.fromhex(h), h of even length
RECURSIVE fromhex(_)
fromhex(h) == IF h = <<>> THEN <<>> ELSE <<IntOfHex(h)>> \o fromhex(SubSeq(h, 3, Len(h)))

\* a prefix test that looks at the first digit only
StartsWith4(h) == Len(h) >= 1 /\ h[1] = 4

\* s.startswith("41")
StartsWith41(h) == Len(h) >= 2 /\ h[1] = 4 /\ h[2] = 1

(***************************************************************************)
(* DataLogger.chunker / run_benchmark.chunker                               *)
(***************************************************************************)
RECURSIVE ChunkFrom(_, _, _)
ChunkFrom(seq, size, pos) ==
  IF pos >= Len(seq) THEN <<>>
  ELSE <<Slice(seq, pos, pos + size)>> \o ChunkFrom(seq, size, pos + size)

\* a chunker whose slice is one element short of the step
chunker_short(seq, size) ==
  LET RECURSIVE F(_)
      F(pos) == IF pos >= Len(seq) THEN <<>>
                ELSE <<Slice(seq, pos, pos + size - 1)>> \o F(pos + size)
  IN F(0)

\* list(chunker(seq, size)): for pos in range(0, len(seq), size): yield seq[pos:pos+size]
chunker(seq, size) == ChunkFrom(seq, size, 0)

\* the group size the poll loop and the benchmark pass to chunker
GroupSize == 6

(***************************************************************************)
(* DataLogger._parse_multi_pid_response                                     *)
(***************************************************************************)
\* a lookup table built from the whole catalog instead of the group
GroupByPid_catalog(group) ==
  [p \in {commands[n].pid : n \in CommandNames} |->
     commands[CHOOSE n \in CommandNames : commands[n].pid = p]]

\* {cmd.pid: cmd for cmd in group}: a later command of the same pid wins
GroupByPid(group) ==
  [p \in {group[i].pid : i \in DOMAIN group} |->
     LET last == CHOOSE i \in DOMAIN group :
                   /\ group[i].pid = p
                   /\ \A j \in DOMAIN group : group[j].pid = p => j <= i
     IN group[last]]

\* a recovery that goes back to the unknown PID byte
SkipUnknown_reread(pointer) == pointer - 2

\* a recovery that skips nothing after the unknown PID byte
SkipUnknown_none(pointer) == pointer

\* line 463: pointer advance after an unknown PID byte, itself already passed
\* by line 428: one more byte, taken to be its value
SkipUnknown(pointer) == pointer + 2

\* a value length that forgets the PID byte
NumValueBytes_mode_only(command) == command.bytes - 1

\* line 434: command.bytes counts mode + pid + value
NumValueBytes(command) == command.bytes - 2

\* a break that throws the partial results away
IncompleteBreak_discard(pointer, res) ==
  [pointer |-> pointer, results |-> EmptyDict, brk |-> "incomplete"]

\* lines 436-438: too few digits left for the value: break, results kept
IncompleteBreak(pointer, res) ==
  [pointer |-> pointer, results |-> res, brk |-> "incomplete"]

\* one pass of the body of "while pointer < len(full_response_hex)".
\* st = [pointer, results, brk]; brk names the break the body left by, if any:
\* "short" (line 422) or "incomplete" (line 438).
ParseBody(h, group_by_pid, st) ==
  IF st.pointer + 2 > Len(h) THEN [st EXCEPT !.brk = "short"]
  ELSE
    LET pid_hex == Slice(h, st.pointer, st.pointer + 2)
        pid_int == IntOfHex(pid_hex)
        known   == pid_int \in DOMAIN group_by_pid
        pointer == st.pointer + 2
    IN IF known
       THEN LET command == group_by_pid[pid_int]
                num_value_bytes == NumValueBytes(command)
            IN IF pointer + (num_value_bytes * 2) > Len(h)
               THEN IncompleteBreak(pointer, st.results)
               ELSE LET value_hex == Slice(h, pointer, pointer + (num_value_bytes * 2))
                        data == fromhex(<<4, 1>>) \o fromhex(pid_hex) \o fromhex(value_hex)
                    IN [pointer |-> pointer + (num_value_bytes * 2),
                        results |-> DictPut(st.results, command.name, decode(command, data)),
                        brk |-> ""]
       ELSE [pointer |-> SkipUnknown(pointer), results |-> st.results, brk |-> ""]

RECURSIVE ParseLoop(_, _, _)
ParseLoop(h, group_by_pid, st) ==
  IF st.brk # "" \/ ~(st.pointer < Len(h)) THEN st.results
  ELSE ParseLoop(h, group_by_pid, ParseBody(h, group_by_pid, st))

\* the whole call: the dict returned for the reply `messages` (a sequence of
\* byte strings) and the requesting group
parse_multi_pid_response(messages, group) ==
  LET full_response_hex == Concat([i \in DOMAIN messages |-> hex(messages[i])])
  IN IF ~StartsWith41(full_response_hex) THEN EmptyDict
     ELSE ParseLoop(full_response_hex, GroupByPid(group),
                    [pointer |-> 2, results |-> EmptyDict, brk |-> ""])

(***************************************************************************)
(* State                                                                   *)
(***************************************************************************)
VARIABLES
  b_seq,              \* chunker: the list handed in
  b_groups,           \* chunker: list(chunker(b_seq, 6))
  b_pc,               \* chunker: "call" | "done"
  messages,           \* parser: the reply, a list of byte strings
  group,              \* parser: the requesting group, a list of commands
  full_response_hex,  \* parser: local of the same name
  pointer,            \* parser: local of the same name
  results,            \* parser: local of the same name
  p_pc,               \* parser: "call" | "loop" | "ret"
  p_exit,             \* parser: how the call left: "" | "fail_fast" | "short" | "incomplete" | "end"
  obd,                \* datalogger module global obd: TRUE when python-obd is bound to it
  cfg_type,           \* config network.obd_connection.type ("none": no obd_connection)
  selected_pids,      \* config pid_management.selected_pids
  mock_data_mode,     \* config debug.mock_data_mode
  running,            \* DataLogger.running
  connection,         \* DataLogger.connection: [kind, open]
  data_store,         \* DataLogger.data_store (PID names and connection_status)
  commands_to_query,  \* run: local of the same name
  groups,             \* run: local of the same name
  grp_idx,            \* run: number of groups of this tick already processed
  response,           \* run: the response of the group processed last
  ds_before,          \* history: data_store as it was before that group
  replies,            \* history: the raw reply to each group of this tick (<<>>: none)
  l_pc,               \* run: "start" | "top" | "groups" | "tail" | "exited" | "crashed"
  stop_called,        \* stop() has been called
  connect_ok,         \* run: what connect_obd() returned
  s_pc,               \* stop(): "idle" | "close" | "done" | "raised"
  stop_at,            \* history: the worker's l_pc and grp_idx when stop() cleared running
  esp32_enabled,      \* config esp32.enabled (with one device configured)
  r_pc,               \* a reader of the store (/live_data): "idle" | "iterating" | "raised"
  r_len,              \* reader: the size of the dict when its iteration began
  interval_ms,        \* config datalogging.logging_interval_ms
  cycle_ms,           \* run: cycle_ms of the tick finished last
  warnings,           \* the overrun warnings that tick emitted (logger or stdout)
  sleep_ms,           \* the argument of the time.sleep that ended that tick, in ms
  a_is_connected,     \* WirelessOBDAdapter.is_connected
  c_is_connected,     \* WirelessOBDConnection.is_connected
  last_data,          \* WirelessOBDAdapter.last_data
  stop_thread,        \* WirelessOBDAdapter.stop_thread
  data_thread,        \* WirelessOBDAdapter.data_thread: index into workers, 0 for None
  workers,            \* the _data_loop threads started so far: "check" | "fetch" | "warn" | "dead"
  pid_mapping,        \* WirelessOBDAdapter.pid_mapping is not None
  now,                \* time.time(), in seconds
  w_pc,               \* the thread calling start/stop/query: "idle" | "joining"
  q_cmd,              \* query: cmd of the last call ("" before the first)
  q_conn,             \* query: WirelessOBDConnection.is_connected as the last call read it
  q_time,             \* query: time.time() of the last call
  q_result,           \* query: what the last call returned
  http_gets,          \* requests.get calls made so far by the adapter
  data_lock,          \* holder of WirelessOBDAdapter.data_lock: 0 or a worker's index
  \* ---- DataLogger, the pause between groups ----
  group_delay_ms,     \* config datalogging.inter_group_delay_ms
  group_sleeps,       \* this tick: the groups (1-based) after which the worker slept
  \* ---- obd_socketcan_probe.py ----
  f_pids,             \* main: pids, the PIDs of --pids
  f_idx,              \* main: how many of them have been requested
  f_filter,           \* main: --filter-responses
  f_sent,             \* the frames handed to bus.send so far
  f_results,          \* send_and_listen: results of the current request
  f_recvs,            \* send_and_listen: frames received in the current window
  f_pc,               \* "idle" | "loop" | "listen" | "done" | "raised"
  \* ---- DataLogger, the CSV log ----
  log_file,           \* self.log_file: 0 (None) or the index in files of the file it names
  csv_writer,         \* self.csv_writer: 0 (None) or the index in files of its file
  header_written,     \* self.header_written
  files,              \* the files opened by start_log: [closed, rows], oldest first
  lg_pc,              \* the worker in its logging step: "sleep" | "hdrtest" | "hdr" | "hdrset" | "row"
  lc_pc,              \* the thread that calls start_log and stop_log: "idle" | "open" | "flag" | "active" | "close" | "inactive"
  \* ---- a frame at the SocketCAN filter and at send_and_listen's test ----
  k_id,               \* arbitration_id of the frame
  k_hw,               \* the can_filters entry lets it through
  k_sw,               \* line 69 takes it as a reply
  k_pc                \* "idle" | "bus" | "kernel" | "done"

bvars == <<b_seq, b_groups, b_pc>>
pvars == <<messages, group, full_response_hex, pointer, results, p_pc, p_exit>>
lvars == <<obd, cfg_type, selected_pids, mock_data_mode, running, connection, data_store,
           commands_to_query, groups, grp_idx, response, ds_before, replies, l_pc,
           stop_called, interval_ms, cycle_ms, warnings, sleep_ms, connect_ok, s_pc, stop_at,
           esp32_enabled, r_pc, r_len,
           group_delay_ms, group_sleeps>>
wvars == <<a_is_connected, c_is_connected, last_data, stop_thread, data_thread, workers,
           pid_mapping, now, w_pc, q_cmd, q_conn, q_time, q_result, http_gets,
           data_lock>>
fvars == <<f_pids, f_idx, f_filter, f_sent, f_results, f_recvs, f_pc>>
gvars == <<log_file, csv_writer, header_written, files, lg_pc, lc_pc>>
kvars == <<k_id, k_hw, k_sw, k_pc>>
vars == <<bvars, pvars, lvars, wvars, fvars, gvars, kvars>>

BatchIdle == b_seq = <<>> /\ b_groups = <<>> /\ b_pc = "idle"
\* DataLogger.__init__, lines 64-66: no log file yet
LogIdle ==
  /\ log_file = 0 /\ csv_writer = 0 /\ header_written = FALSE /\ files = <<>>
  /\ lg_pc = "sleep" /\ lc_pc = "idle"
FilterIdle == k_id = 0 /\ k_hw = FALSE /\ k_sw = FALSE /\ k_pc = "idle"
ProbeIdle ==
  /\ f_pids = <<>> /\ f_idx = 0 /\ f_filter = FALSE /\ f_sent = <<>>
  /\ f_results = <<>> /\ f_recvs = 0 /\ f_pc = "idle"
ParseIdle ==
  /\ messages = <<>> /\ group = <<>> /\ full_response_hex = <<>>
  /\ pointer = 0 /\ results = EmptyDict /\ p_pc = "idle" /\ p_exit = ""

\* values of data_store entries of PID names
NA == [na |-> TRUE, v |-> [num |-> 0, den |-> 1]]
Num(x) == [na |-> FALSE, v |-> x]
\* connection is None
NoConnection == [kind |-> "None", open |-> FALSE]
\* a null response (None, or an OBDResponse whose is_null() is true)
NullResponse == [null |-> TRUE, value |-> EmptyDict]

\* stop() has not been called
NotStopped == [pc |-> "", grp |-> 0]

LoopIdle ==
  /\ obd = FALSE /\ cfg_type = "none" /\ selected_pids = <<>> /\ mock_data_mode = FALSE
  /\ running = FALSE /\ connection = NoConnection /\ data_store = EmptyDict
  /\ commands_to_query = <<>> /\ groups = <<>> /\ grp_idx = 0
  /\ response = NullResponse /\ ds_before = EmptyDict /\ replies = <<>> /\ l_pc = "idle"
  /\ stop_called = FALSE
  /\ interval_ms = 0 /\ cycle_ms = 0 /\ warnings = <<>> /\ sleep_ms = 0
  /\ connect_ok = FALSE /\ s_pc = "idle" /\ stop_at = NotStopped
  /\ esp32_enabled = FALSE /\ r_pc = "idle" /\ r_len = 0
  /\ group_delay_ms = 0 /\ group_sleeps = <<>>

\* query returned None
NoResponse == [null |-> TRUE, value |-> 0]

WirelessIdle ==
  /\ a_is_connected = FALSE /\ c_is_connected = FALSE /\ last_data = EmptyDict
  /\ stop_thread = FALSE /\ data_thread = 0 /\ workers = <<>> /\ pid_mapping = FALSE
  /\ now = 0 /\ w_pc = "idle" /\ q_cmd = "" /\ q_conn = FALSE /\ q_time = 0
  /\ q_result = NoResponse /\ http_gets = 0 /\ data_lock = 0

(***************************************************************************)
(* SpecBatch: chunker applied to every list of up to MaxBatchLen commands   *)
(***************************************************************************)
BatchAlphabet == {commands.RPM, commands.SPEED}

InitBatch ==
  /\ b_seq \in SeqsUpTo(BatchAlphabet, MaxBatchLen)
  /\ b_groups = <<>>
  /\ b_pc = "call"
  /\ ParseIdle
  /\ LoopIdle
  /\ WirelessIdle
  /\ ProbeIdle /\ LogIdle /\ FilterIdle

Batch ==
  /\ b_pc = "call"
  /\ b_groups' = chunker(b_seq, GroupSize)
  /\ b_pc' = "done"
  /\ UNCHANGED <<b_seq, pvars, lvars, wvars, fvars, gvars, kvars>>

NextBatch == Batch
SpecBatch == InitBatch /\ [][NextBatch]_vars

(***************************************************************************)
(* SpecParse: _parse_multi_pid_response applied to bounded replies/groups   *)
(***************************************************************************)
\* the commands the parser is exercised with, and the bytes of reply bodies:
\* the three PID codes themselves, so that value bytes can alias PID codes
ParseCommands == {commands.RPM, commands.COOLANT_TEMP, commands.SPEED}
BodyBytes == {c.pid : c \in ParseCommands}
\* first bytes other than the mode echo 0x41: 0x40, 0x14, 0x7F
NonModeBytes == {64, 20, 127}

\* the reply 41 0C 1A DE 05 50 as the hex digits of its text
ExampleHex == <<4, 1, 0, 12, 1, 10, 13, 14, 0, 5, 5, 0>>

Payloads ==
  {<<>>, fromhex(ExampleHex)}
  \cup {<<65>> \o b : b \in SeqsUpTo(BodyBytes, MaxBodyLen)}
  \cup {<<f>> \o b : f \in NonModeBytes, b \in SeqsUpTo(BodyBytes, MaxBadBodyLen)}

\* lists of distinct commands
DistinctSeqs(S) ==
  {g \in SeqsUpTo(S, Cardinality(S)) : \A i, j \in DOMAIN g : i # j => g[i] # g[j]}

ParseGroups == DistinctSeqs(ParseCommands)

InitParse ==
  /\ messages \in {<<m>> : m \in Payloads}
  /\ group \in ParseGroups
  /\ full_response_hex = <<>>
  /\ pointer = 0
  /\ results = EmptyDict
  /\ p_pc = "call"
  /\ p_exit = ""
  /\ BatchIdle
  /\ LoopIdle
  /\ WirelessIdle
  /\ ProbeIdle /\ LogIdle /\ FilterIdle

\* lines 407-415: build the hex string, fail fast unless it starts with "41"
ParseEnter ==
  /\ p_pc = "call"
  /\ LET h == Concat([i \in DOMAIN messages |-> hex(messages[i])])
     IN /\ full_response_hex' = h
        /\ results' = EmptyDict
        /\ IF ~StartsWith41(h)
           THEN p_pc' = "ret" /\ pointer' = 0 /\ p_exit' = "fail_fast"
           ELSE p_pc' = "loop" /\ pointer' = 2 /\ p_exit' = ""
  /\ UNCHANGED <<messages, group, bvars, lvars, wvars, fvars, gvars, kvars>>

\* lines 420-463: one pass of the while body
ParseIterate ==
  /\ p_pc = "loop"
  /\ pointer < Len(full_response_hex)
  /\ LET st == ParseBody(full_response_hex, GroupByPid(group),
                         [pointer |-> pointer, results |-> results, brk |-> ""])
     IN /\ pointer' = st.pointer
        /\ results' = st.results
        /\ p_pc' = IF st.brk # "" THEN "ret" ELSE "loop"
        /\ p_exit' = st.brk
  /\ UNCHANGED <<messages, group, full_response_hex, bvars, lvars, wvars, fvars, gvars, kvars>>

\* line 465: the loop condition fails
ParseReturn ==
  /\ p_pc = "loop"
  /\ ~(pointer < Len(full_response_hex))
  /\ p_pc' = "ret"
  /\ p_exit' = "end"
  /\ UNCHANGED <<messages, group, full_response_hex, pointer, results, bvars, lvars, wvars, fvars, gvars, kvars>>

NextParse == ParseEnter \/ ParseIterate \/ ParseReturn
SpecParse == InitParse /\ [][NextParse]_vars

\* replies of up to MaxLiveLen bytes, and the example reply
MaxLiveLen == 5
InitParseLive ==
  InitParse /\ (Len(messages[1]) <= MaxLiveLen \/ messages[1] = fromhex(ExampleHex))

\* the call runs on: the thread that called the parser is scheduled
SpecParseLive == InitParseLive /\ [][NextParse]_vars /\ WF_vars(NextParse)

(***************************************************************************)
(* Spec: the poll worker DataLogger.run with connect_obd and stop().        *)
(* data_store is tracked on the PID names and "connection_status"; the      *)
(* bookkeeping keys (pid_read_count, last_cycle_duration_ms, derived AFR,   *)
(* boost and fuel fields, log state) are left out.                          *)
(***************************************************************************)
RECURSIVE FilterSeq(_, _)
\* [x for x in seq if x in S]
FilterSeq(seq, S) ==
  IF seq = <<>> THEN <<>>
  ELSE (IF Head(seq) \in S THEN <<Head(seq)>> ELSE <<>>) \o FilterSeq(Tail(seq), S)

\* keys of a dict filled in list order: the first occurrence fixes the place
DictOrder(seq) ==
  FilterSeq([i \in DOMAIN seq |-> IF \E j \in 1..(i - 1) : seq[j] = seq[i] THEN "" ELSE seq[i]],
            {seq[i] : i \in DOMAIN seq})

\* _build_pid_list: the selected names that obd.commands has, as commands;
\* nothing when the module global obd is None
build_pid_list(sel, o) ==
  IF ~o THEN <<>>
  ELSE LET names == FilterSeq(DictOrder(sel), CommandNames)
       IN [i \in DOMAIN names |-> commands[names[i]]]

\* __init__, lines 73 and 78
\* The values of pid_read_count and of the derived fields are not tracked
\* ("-"); esp32_online starts as the bool False.
InitialStore(pids) ==
  LET book == [Boost_Pressure_PSI |-> "-", Commanded_AFR |-> "-", Measured_AFR |-> "-",
               log_active |-> FALSE, connection_status |-> "Connecting...",
               esp32_online |-> "bool False", last_stop_time |-> "-",
               log_file_name |-> "", pid_read_count |-> "-"]
  IN [k \in {pids[i].name : i \in DOMAIN pids} \cup DOMAIN book |->
        IF k \in DOMAIN book THEN book[k] ELSE NA]

\* connect_obd: the outcomes [ok, conn, status] of one call, by connection
\* type, over what the environment (python-can, the ESP32, the adapter) does
ConnectOutcomes(type, o) ==
  CASE type = "none" ->
         {[ok |-> FALSE, conn |-> NoConnection, status |-> "Error: OBD connection not configured."]}
    [] type = "local_mcp2515" ->
         {[ok |-> FALSE, conn |-> NoConnection, status |-> "Using local MCP2515 (hub-managed CAN)"],
          [ok |-> FALSE, conn |-> NoConnection,
           status |-> "Error: python-can not available; cannot open socketcan"],
          [ok |-> TRUE, conn |-> [kind |-> "Bus", open |-> TRUE], status |-> "SocketCAN opened on can0"],
          [ok |-> FALSE, conn |-> NoConnection, status |-> "SocketCAN open failed"]}
    [] type = "wireless_can" ->
         {[ok |-> FALSE, conn |-> NoConnection, status |-> "Error: Wireless CAN configuration invalid."],
          [ok |-> TRUE, conn |-> [kind |-> "Wireless", open |-> TRUE],
           status |-> "Successfully connected via Acebott ESP32."],
          [ok |-> FALSE, conn |-> NoConnection, status |-> "Wireless CAN connection failed."]}
    [] OTHER ->
         IF ~o
         THEN {[ok |-> FALSE, conn |-> NoConnection,
                status |-> "Error: python-obd not installed; serial adapters disabled."]}
         ELSE {[ok |-> FALSE, conn |-> NoConnection,
                status |-> "Error: Baud rate not configured in config.json."],
               [ok |-> FALSE, conn |-> NoConnection,
                status |-> "Error: python-obd not available at connect time."],
               [ok |-> FALSE, conn |-> [kind |-> "OBD", open |-> FALSE], status |-> "Connection failed."],
               [ok |-> TRUE, conn |-> [kind |-> "OBD", open |-> TRUE], status |-> "Successfully connected."],
               [ok |-> FALSE, conn |-> NoConnection, status |-> "Connection error"]}

\* lines 502-510: the selected commands the vehicle supports, in selection
\* order, with BAROMETRIC_PRESSURE appended when supported and not selected
CommandsToQuery(pids, supported, o) ==
  LET kept == FilterSeq(pids, supported)
      baro == commands.BAROMETRIC_PRESSURE
  IN IF o /\ baro \in supported /\ \A i \in DOMAIN kept : kept[i].name # "BAROMETRIC_PRESSURE"
     THEN Append(kept, baro)
     ELSE kept

\* lines 557-558: for pid_name, pid_value in response.value.items(): store it
MergeResponse(ds, value) ==
  [k \in (DOMAIN ds) \cup (DOMAIN value) |-> IF k \in DOMAIN value THEN Num(value[k]) ELSE ds[k]]

\* a null branch that leaves the store as it is
MarkUnavailable_keep(ds, g) == ds

\* lines 561-562: for cmd in group: data_store[cmd.name] = "N/A"
MarkUnavailable(ds, g) ==
  [k \in (DOMAIN ds) \cup {g[i].name : i \in DOMAIN g} |->
     IF \E i \in DOMAIN g : g[i].name = k THEN NA ELSE ds[k]]

\* lines 555-562
StoreResponse(ds, r, g) ==
  IF ~r.null THEN MergeResponse(ds, r.value) ELSE MarkUnavailable(ds, g)

\* replies of the vehicle to the request of group g: every value byte b
ReplyBytes == {5, 80}
Tuple(c, b) == <<c.pid>> \o [i \in 1..(c.bytes - 2) |-> b]
FullReply(g, b) == <<65>> \o Concat([i \in DOMAIN g |-> Tuple(g[i], b)])
LoopReplies(g) ==
  UNION {{FullReply(g, b),                                          \* every PID answered
          <<65>> \o Tuple(g[1], b),                                 \* only the first PID answered
          SubSeq(FullReply(g, b), 1, Len(FullReply(g, b)) - 1)}     \* last value byte missing
         : b \in ReplyBytes}
  \cup {<<65>>, <<127, 1, 18>>}                                     \* bare echo, negative response

\* line 551: connection.query(multi_cmd, force=True), or None without a
\* connection.  python-obd answers a null response when the link is closed
\* or no message came back, else a response whose value is what the decoder
\* (_parse_multi_pid_response on this group) returned.
QueryOutcomes(conn, g) ==
  IF conn.kind = "OBD" /\ conn.open
  THEN {[raw |-> <<>>, r |-> NullResponse]} \cup
       {[raw |-> m, r |-> [null |-> FALSE, value |-> parse_multi_pid_response(<<m>>, g)]] :
          m \in LoopReplies(g)}
  ELSE {[raw |-> <<>>, r |-> NullResponse]}

\* _generate_mock_data: the names it fills; the random value is one token
MockNames == {"RPM", "ENGINE_LOAD", "THROTTLE_POS", "TIMING_ADVANCE", "INTAKE_PRESSURE",
              "FUEL_RAIL_PRESSURE", "COOLANT_TEMP", "AMBIANT_AIR_TEMP", "INTAKE_TEMP",
              "SHORT_FUEL_TRIM_1", "LONG_FUEL_TRIM_1"}
MockValue == [num |-> 1000, den |-> 1]
MockStore(ds) ==
  [k \in (DOMAIN ds) \cup MockNames |-> IF k \in MockNames THEN Num(MockValue) ELSE ds[k]]

ConnTypes == {"none", "local_mcp2515", "wireless_can", "usb"}
SelectedLists ==
  { <<>>,
    <<"RPM", "COOLANT_TEMP">>,
    <<"RPM", "BOGUS_PID", "SPEED">>,
    <<"RPM", "COOLANT_TEMP", "SPEED", "INTAKE_TEMP", "MAF", "THROTTLE_POS">> }
AllCommands == {commands[n] : n \in CommandNames}
SupportedSets ==
  {AllCommands, AllCommands \ {commands.BAROMETRIC_PRESSURE}, AllCommands \ {commands.SPEED}}

\* configured logging_interval_ms, and what a cycle can take, in ms
Intervals == {100, 150}
Durations == {50, 100, 180}

\* a warning for every cycle that reached the target
OverrunWarnings_reached(cycle, interval) ==
  IF cycle >= interval THEN << <<cycle, interval>> >> ELSE <<>>

\* lines 573-576: the warnings of one tick; the text of a warning holds
\* cycle_ms and interval_ms ("PID cycle took {cycle_ms}ms which exceeds
\* target interval {interval_ms}ms")
OverrunWarnings(cycle, interval) ==
  IF cycle > interval THEN << <<cycle, interval>> >> ELSE <<>>

\* line 867: time.sleep(logging_interval_ms / 1000.0), in ms
TickSleep(interval, cycle) == interval

\* what one call of fetch_external_sensor_data can meet at the one device:
\* a 200 with a JSON object, or a failure (another status, a timeout)
ExternalOutcomes ==
  {[ok |-> TRUE, data |-> [wideband_afr |-> "14.7"]], [ok |-> FALSE, data |-> EmptyDict]}

\* fetch_external_sensor_data, lines 278-298: nothing when esp32 is not
\* enabled, else every key of the payload with str(value), and esp32_online
ExternalFetch(ds, enabled, out) ==
  IF ~enabled THEN ds
  ELSE LET merged == [k \in (DOMAIN ds) \cup (DOMAIN out.data) |->
                        IF k \in DOMAIN out.data THEN out.data[k] ELSE ds[k]]
       IN DictPut(merged, "esp32_online", IF out.ok THEN "str True" ELSE "str False")

\* lines 570 and 589-633: last_cycle_duration_ms (the value is cycle_ms and
\* is not kept a second time), the boost and AFR fields and the
\* Fuel_<metric> fields, the latter as one key
DerivedFields(ds, cycle) ==
  LET put == [last_cycle_duration_ms |-> "-", Boost_Pressure_PSI |-> "-",
              Commanded_AFR |-> "-", Measured_AFR |-> "-", Fuel_metrics |-> "-"]
  IN [k \in (DOMAIN ds) \cup (DOMAIN put) |-> IF k \in DOMAIN put THEN put[k] ELSE ds[k]]

\* a stop_log that takes its keys out of the store
StopLogStore_remove(ds) ==
  IF ~ds["log_active"] THEN ds
  ELSE [k \in (DOMAIN ds) \ {"log_active", "log_file_name"} |-> ds[k]]

\* stop_log, lines 333-339
StopLogStore(ds) ==
  IF ~ds["log_active"] THEN ds
  ELSE [ds EXCEPT !["log_active"] = FALSE, !["last_stop_time"] = "-"]

\* the state after DataLogger(config), lines 59-89.  Line 4 binds the module
\* global obd to None and nothing in the repository rebinds it; the code tests
\* it at run time (lines 135 and 507), so both the shipped binding (FALSE) and
\* a process in which python-obd has been bound to it (TRUE) are covered.
InitLogger ==
  /\ obd \in BOOLEAN
  /\ cfg_type \in ConnTypes
  /\ selected_pids \in SelectedLists
  /\ mock_data_mode \in BOOLEAN
  /\ running = TRUE
  /\ connection = NoConnection
  /\ data_store = InitialStore(build_pid_list(selected_pids, obd))
  /\ commands_to_query = <<>> /\ groups = <<>> /\ grp_idx = 0
  /\ response = NullResponse
  /\ ds_before = data_store
  /\ replies = <<>>
  /\ l_pc = "start"
  /\ stop_called = FALSE
  /\ interval_ms \in Intervals
  /\ cycle_ms = 0 /\ warnings = <<>> /\ sleep_ms = 0
  /\ connect_ok = FALSE /\ s_pc = "idle" /\ stop_at = NotStopped
  /\ r_pc = "idle" /\ r_len = 0
  /\ group_sleeps = <<>>
  /\ BatchIdle /\ ParseIdle /\ WirelessIdle /\ ProbeIdle /\ LogIdle /\ FilterIdle

\* a logger whose config has no external sensors enabled and leaves
\* inter_group_delay_ms at its default, 0
Init == InitLogger /\ esp32_enabled = FALSE /\ group_delay_ms = 0

\* run, line 488, and connect_obd, lines 142-276: the call leaves the
\* connection and the connection_status of its branch and returns ok
ConnectObd ==
  /\ l_pc = "start"
  /\ \E out \in ConnectOutcomes(cfg_type, obd) :
       /\ connection' = out.conn
       /\ connect_ok' = out.ok
       /\ data_store' = [data_store EXCEPT !["connection_status"] = out.status]
  /\ l_pc' = "connected"
  /\ UNCHANGED <<group_delay_ms, group_sleeps,
                 esp32_enabled, r_pc, r_len, replies, interval_ms, cycle_ms, warnings, sleep_ms, s_pc, stop_at, obd,
                 cfg_type,
                 selected_pids, mock_data_mode, running, commands_to_query, groups, grp_idx,
                 response, ds_before, stop_called, bvars, pvars, wvars, fvars, gvars, kvars>>

\* what run and stop() invoke on self.connection: is_connected() (lines 499,
\* 580, 872), the supported_commands attribute read as a collection (lines
\* 500-502), query(cmd, force=True) (line 551) and close() (line 873)
LoopCalls == {"is_connected()", "supported_commands", "query(cmd, force)", "close()"}

\* which of them each kind of connection object answers in that form.  The
\* WirelessOBDConnection has is_connected as a bool attribute,
\* supported_commands as a method and stop() in place of close(); the
\* python-can bus has send, recv and shutdown.
Provides(kind) ==
  CASE kind = "OBD" -> LoopCalls
    [] kind = "Wireless" -> {"query(cmd, force)"}
    [] kind = "Bus" -> {}
    [] OTHER -> {}

\* connection.is_connected() as run and stop call it: "raise" on the
\* SocketCAN bus (no such attribute) and on the WirelessOBDConnection (a bool
\* attribute, not callable), else the state of the python-obd link
IsConnectedCall(conn) ==
  IF "is_connected()" \notin Provides(conn.kind) THEN "raise"
  ELSE IF conn.kind = "OBD" /\ conn.open THEN "yes" ELSE "no"

\* run, lines 488-513: the fallback to external-sensors-only mode when
\* connect_obd returned false, then the choice of commands_to_query.  When
\* line 499 raises the thread dies.
RunStart ==
  /\ l_pc = "connected"
  /\ data_store' = IF connect_ok THEN data_store
                   ELSE [data_store EXCEPT !["connection_status"] =
                           "OBD unavailable (external sensors only)"]
  /\ \E supported \in SupportedSets :
       IF connection.kind # "None" /\ IsConnectedCall(connection) = "raise"
       THEN l_pc' = "crashed" /\ commands_to_query' = <<>>
       ELSE /\ l_pc' = "top"
            /\ commands_to_query' =
                 IF connection.kind # "None" /\ IsConnectedCall(connection) = "yes"
                 THEN CommandsToQuery(build_pid_list(selected_pids, obd), supported, obd)
                 ELSE <<>>
  /\ UNCHANGED <<group_delay_ms, group_sleeps,
                 esp32_enabled, r_pc, r_len, replies, interval_ms, cycle_ms, warnings, sleep_ms, connect_ok, s_pc,
                 stop_at, obd,
                 cfg_type, selected_pids, mock_data_mode, running, connection, groups, grp_idx,
                 response, ds_before, stop_called, bvars, pvars, wvars, fvars, gvars, kvars>>

\* a loop that does not look at the flag
LoopContinues_always(r) == TRUE

\* line 515: while self.running
LoopContinues(r) == r

\* lines 515-521: while self.running: build the groups of this tick
TickStart ==
  /\ l_pc = "top" /\ LoopContinues(running)
  /\ groups' = chunker(commands_to_query, GroupSize)
  /\ grp_idx' = 0
  /\ replies' = <<>>
  /\ l_pc' = "groups"
  /\ data_store' = DictPut(data_store, "pid_groups_per_cycle",
                           Len(chunker(commands_to_query, GroupSize)))
  /\ group_sleeps' = <<>>
  /\ UNCHANGED <<group_delay_ms,
                 esp32_enabled, r_pc, r_len, connect_ok, s_pc, stop_at, interval_ms, cycle_ms, warnings, sleep_ms, obd,
                 cfg_type, selected_pids, mock_data_mode, running, connection,
                 commands_to_query, response, ds_before, stop_called, bvars, pvars, wvars, fvars, gvars, kvars>>

\* line 515: the loop condition fails, run returns
LoopExit ==
  /\ l_pc = "top" /\ ~LoopContinues(running)
  /\ l_pc' = "exited"
  /\ UNCHANGED <<group_delay_ms, group_sleeps,
                 esp32_enabled, r_pc, r_len, replies, connect_ok, s_pc, stop_at, interval_ms, cycle_ms, warnings,
                 sleep_ms, obd, cfg_type, selected_pids, mock_data_mode, running,
                 connection, data_store,
                 commands_to_query, groups, grp_idx, response, ds_before, stop_called,
                 bvars, pvars, wvars, fvars, gvars, kvars>>

\* a loop that walks the groups from the last to the first
GroupAt_reversed(gs, done) == gs[Len(gs) - done]

\* line 523: for grp_idx, group in enumerate(groups): the group of the pass
\* that follows `done` finished passes
GroupAt(gs, done) == gs[done + 1]

\* a pause after every group
SleepsAfterGroup_every(delay, idx, n) == delay > 0

\* lines 564-566: if group_delay_ms > 0 and grp_idx < len(groups) - 1:
\* time.sleep(group_delay_ms / 1000.0); idx is the 0-based grp_idx
SleepsAfterGroup(delay, idx, n) == delay > 0 /\ idx < n - 1

\* lines 523-566: one pass of "for grp_idx, group in enumerate(groups)"
ProcessGroup ==
  /\ l_pc = "groups" /\ grp_idx < Len(groups)
  /\ \E out \in QueryOutcomes(connection, GroupAt(groups, grp_idx)) :
       /\ response' = out.r
       /\ replies' = Append(replies, out.raw)
       /\ data_store' = StoreResponse(data_store, out.r, GroupAt(groups, grp_idx))
  /\ ds_before' = data_store
  /\ grp_idx' = grp_idx + 1
  /\ group_sleeps' = IF SleepsAfterGroup(group_delay_ms, grp_idx, Len(groups))
                     THEN Append(group_sleeps, grp_idx + 1) ELSE group_sleeps
  /\ UNCHANGED <<group_delay_ms,
                 esp32_enabled, r_pc, r_len, connect_ok, s_pc, stop_at, interval_ms, cycle_ms, warnings, sleep_ms, obd,
                 cfg_type, selected_pids, mock_data_mode, running, connection,
                 commands_to_query, groups, l_pc, stop_called, bvars, pvars, wvars, fvars, gvars, kvars>>

\* mock data whatever the state of the link
MockApplies_always(mock, conn) == mock

\* line 580: if self.mock_data_mode and (not self.connection or not
\* self.connection.is_connected())
MockApplies(mock, conn) == mock /\ ~(conn.kind # "None" /\ IsConnectedCall(conn) = "yes")

\* lines 568-867: the rest of the tick after the last group: the cycle time
\* and its warning, the mock data, the final sleep.  The external sensors
\* report under field names of their own and the derived fields (boost, AFR,
\* fuel) have names of their own; those keys are not tracked.
TickTail ==
  /\ l_pc = "groups" /\ grp_idx = Len(groups)
  /\ l_pc' = "top"
  /\ \E d \in Durations, ext \in ExternalOutcomes :
       /\ cycle_ms' = d
       /\ warnings' = OverrunWarnings(d, interval_ms)
       /\ sleep_ms' = TickSleep(interval_ms, d)
       /\ data_store' =
            LET mocked == IF MockApplies(mock_data_mode, connection)
                          THEN MockStore(data_store) ELSE data_store
            IN DerivedFields(ExternalFetch(mocked, esp32_enabled, ext), d)
  /\ UNCHANGED <<group_delay_ms, group_sleeps,
                 esp32_enabled, r_pc, r_len, replies, connect_ok, s_pc, stop_at, interval_ms, obd, cfg_type,
                 selected_pids, mock_data_mode, running, connection,
                 commands_to_query, groups, grp_idx, response, ds_before, stop_called,
                 bvars, pvars, wvars, fvars, gvars, kvars>>

\* stop(), lines 870-871, called from another thread: clear running
Stop ==
  /\ s_pc = "idle"
  /\ stop_called' = TRUE
  /\ running' = FALSE
  /\ s_pc' = "close"
  /\ stop_at' = [pc |-> l_pc, grp |-> grp_idx]
  /\ UNCHANGED <<group_delay_ms, group_sleeps,
                 esp32_enabled, r_pc, r_len, replies, interval_ms, cycle_ms, warnings, sleep_ms, connect_ok, obd, cfg_type,
                 selected_pids, mock_data_mode, connection, data_store, commands_to_query,
                 groups, grp_idx, response, ds_before, l_pc, bvars, pvars, wvars, fvars, gvars, kvars>>

\* the link after stop() is through with it
CloseOnStop_keep(conn) == conn

\* stop(), lines 872-873: if self.connection and self.connection.is_connected():
\* self.connection.close()
CloseOnStop(conn) ==
  IF conn.kind # "None" /\ IsConnectedCall(conn) = "yes"
  THEN [conn EXCEPT !.open = FALSE] ELSE conn

\* stop(), lines 872-877: close the link, then stop_log(); the is_connected()
\* call raises out of stop() on a SocketCAN bus and on a WirelessOBDConnection
StopClose ==
  /\ s_pc = "close"
  /\ connection' = CloseOnStop(connection)
  /\ s_pc' = IF connection.kind # "None" /\ IsConnectedCall(connection) = "raise"
             THEN "raised" ELSE "done"
  /\ data_store' = IF connection.kind # "None" /\ IsConnectedCall(connection) = "raise"
                   THEN data_store ELSE StopLogStore(data_store)
  /\ UNCHANGED <<group_delay_ms, group_sleeps,
                 esp32_enabled, r_pc, r_len, replies, interval_ms, cycle_ms, warnings, sleep_ms, connect_ok, stop_at,
                 obd, cfg_type,
                 selected_pids, mock_data_mode, running, commands_to_query,
                 groups, grp_idx, response, ds_before, l_pc, stop_called, bvars, pvars, wvars, fvars, gvars, kvars>>

Next ==
  ConnectObd \/ RunStart \/ TickStart \/ LoopExit \/ ProcessGroup \/ TickTail \/ Stop \/ StopClose
Spec == Init /\ [][Next]_vars

\* the steps of the worker thread other than the pass over a group, and that
\* pass seen from outside: ProcessGroup is the one action that advances
\* grp_idx, and it can be taken whenever a group is left
WorkerNext == ConnectObd \/ RunStart \/ TickStart \/ LoopExit \/ TickTail
GroupStep == l_pc = "groups" /\ grp_idx < Len(groups) /\ grp_idx' = grp_idx + 1

\* the same construction for a logger without mock data, with no PID or
\* with seven commands (two groups) to query
InitLive ==
  /\ Init
  /\ ~mock_data_mode
  /\ Len(selected_pids) \in {0, GroupSize}
\* The worker thread is scheduled again and again, and every call it makes
\* returns (the queries and HTTP fetches have timeouts, the sleeps are
\* finite); a stop() that was entered runs on.
SpecLive ==
  InitLive /\ [][Next]_vars
  /\ WF_vars(WorkerNext) /\ WF_grp_idx(GroupStep) /\ WF_vars(StopClose)

(***************************************************************************)
(* SpecDelay: the poll worker with inter_group_delay_ms configured          *)
(***************************************************************************)
\* values of datalogging.inter_group_delay_ms: the default, a pause, and a
\* negative number
GroupDelays == {0, 20, 0 - 5}

\* a logger on a serial adapter with two selected PIDs (one group or, with
\* BAROMETRIC_PRESSURE, still one) or six (two groups with it)
InitDelay ==
  /\ InitLogger
  /\ esp32_enabled = FALSE
  /\ group_delay_ms \in GroupDelays
  /\ obd /\ cfg_type = "usb" /\ ~mock_data_mode
  /\ Len(selected_pids) \in {2, GroupSize}
  /\ interval_ms = 100

SpecDelay == InitDelay /\ [][Next]_vars

(***************************************************************************)
(* SpecStore: the poll worker together with the other threads that touch   *)
(* DataLogger.data_store: the dashboard handlers and the CLI calling        *)
(* start_log and stop_log, and a reader that iterates the store.            *)
(***************************************************************************)
\* start_log, lines 300-331: nothing when a log is active; else open the
\* file (ok) and mark the log active, or mark it inactive when open fails
StartLogStore(ds, ok) ==
  IF ds["log_active"] THEN ds
  ELSE IF ok THEN [ds EXCEPT !["log_active"] = TRUE, !["log_file_name"] = "log.csv"]
  ELSE [ds EXCEPT !["log_active"] = FALSE]

\* start_log() called by handle_start_log (webapp.py) or start_datalogger
\* (main.py), on their own threads
StartLog ==
  /\ ~data_store["log_active"]
  /\ \E ok \in BOOLEAN : data_store' = StartLogStore(data_store, ok)
  /\ UNCHANGED <<group_delay_ms, group_sleeps,
                 obd, cfg_type, selected_pids, mock_data_mode, running, connection,
                 commands_to_query, groups, grp_idx, response, ds_before, replies, l_pc,
                 stop_called, interval_ms, cycle_ms, warnings, sleep_ms, connect_ok, s_pc,
                 stop_at, esp32_enabled, r_pc, r_len, bvars, pvars, wvars, fvars, gvars, kvars>>

\* stop_log() called by handle_stop_log, on the dashboard's thread
StopLog ==
  /\ data_store["log_active"]
  /\ data_store' = StopLogStore(data_store)
  /\ UNCHANGED <<group_delay_ms, group_sleeps,
                 obd, cfg_type, selected_pids, mock_data_mode, running, connection,
                 commands_to_query, groups, grp_idx, response, ds_before, replies, l_pc,
                 stop_called, interval_ms, cycle_ms, warnings, sleep_ms, connect_ok, s_pc,
                 stop_at, esp32_enabled, r_pc, r_len, bvars, pvars, wvars, fvars, gvars, kvars>>

\* data_emitter_thread, webapp.py line 49: the test that lets the emitter
\* send current_data after the status_update
EmitsCurrentData(status) == status = "Successfully Connected"

\* live_data (webapp.py lines 124-135) and data_emitter_thread (line 57):
\* "for k, v in data_store.items()" on the logger's own dict begins
ReaderBegin ==
  /\ r_pc \in {"idle", "raised"}
  /\ l_pc \notin {"idle"}
  /\ r_pc' = "iterating"
  /\ r_len' = Cardinality(DOMAIN data_store)
  /\ UNCHANGED <<group_delay_ms, group_sleeps,
                 obd, cfg_type, selected_pids, mock_data_mode, running, connection, data_store,
                 commands_to_query, groups, grp_idx, response, ds_before, replies, l_pc,
                 stop_called, interval_ms, cycle_ms, warnings, sleep_ms, connect_ok, s_pc,
                 stop_at, esp32_enabled, bvars, pvars, wvars, fvars, gvars, kvars>>

\* the iteration goes on to its end, or the dict iterator finds the size of
\* the dict changed and raises RuntimeError
ReaderEnd ==
  /\ r_pc = "iterating"
  /\ r_pc' = IF Cardinality(DOMAIN data_store) # r_len THEN "raised" ELSE "idle"
  /\ UNCHANGED <<group_delay_ms, group_sleeps,
                 obd, cfg_type, selected_pids, mock_data_mode, running, connection, data_store,
                 commands_to_query, groups, grp_idx, response, ds_before, replies, l_pc,
                 stop_called, interval_ms, cycle_ms, warnings, sleep_ms, connect_ok, s_pc,
                 stop_at, esp32_enabled, r_len, bvars, pvars, wvars, fvars, gvars, kvars>>

\* a logger with no PID selected (the worker still polls BAROMETRIC_PRESSURE
\* when the vehicle supports it) on a serial adapter, with or
\* without external sensors
InitStore ==
  /\ InitLogger
  /\ obd /\ cfg_type = "usb" /\ ~mock_data_mode
  /\ selected_pids = <<>>
  /\ interval_ms = 100
  /\ esp32_enabled \in BOOLEAN
  /\ group_delay_ms = 0

NextStore == Next \/ StartLog \/ StopLog \/ ReaderBegin \/ ReaderEnd
SpecStore == InitStore /\ [][NextStore]_vars

(***************************************************************************)
(* SpecWireless: WirelessOBDConnection over WirelessOBDAdapter, with its    *)
(* background _data_loop workers, a caller thread and a clock.              *)
(***************************************************************************)
\* pid_mapping, lines 91-107: command (by name) -> field of the ESP32 JSON
WMapping ==
  [ RPM |-> "rpm", ENGINE_LOAD |-> "engineLoad", INTAKE_TEMP |-> "intakeTemp",
    INTAKE_PRESSURE |-> "manifoldPressure", SPEED |-> "vehicleSpeed",
    THROTTLE_POS |-> "throttlePos", COOLANT_TEMP |-> "coolantTemp", MAF |-> "mafRate" ]

\* the staleness window of line 153, in seconds
StaleAfter == 5

\* d.get(k, default)
DictGet(d, k, default) == IF k \in DOMAIN d THEN d[k] ELSE default

\* a query that hands out whatever is cached for the command
AdapterQuery_cached(isconn, data, t, cmd) ==
  IF cmd \notin DOMAIN WMapping THEN NoResponse
  ELSE IF WMapping[cmd] \notin DOMAIN data THEN NoResponse
  ELSE [null |-> FALSE, value |-> data[WMapping[cmd]]]

\* WirelessOBDAdapter.query, lines 131-169 (and the float() of
\* _create_obd_response on a numeric field): None, or a response with the
\* cached value.  data is last_data, t is time.time().
AdapterQuery(isconn, data, t, cmd) ==
  IF ~isconn THEN NoResponse
  ELSE IF data = EmptyDict THEN NoResponse
  ELSE IF t - DictGet(data, "timestamp", 0) > StaleAfter THEN NoResponse
  ELSE IF cmd \notin DOMAIN WMapping THEN NoResponse
  ELSE IF WMapping[cmd] \notin DOMAIN data THEN NoResponse
  ELSE [null |-> FALSE, value |-> data[WMapping[cmd]]]

\* WirelessOBDConnection.query, lines 288-292
ConnectionQuery(cconn, isconn, data, t, cmd) ==
  IF ~cconn THEN NoResponse ELSE AdapterQuery(isconn, data, t, cmd)

\* threading.Thread.is_alive() of self.data_thread
DataThreadAlive == data_thread # 0 /\ workers[data_thread] # "dead"

\* JSON objects the ESP32 serves at /data
WPayloads ==
  {[rpm |-> 1719], [rpm |-> 800, coolantTemp |-> 40, timestamp |-> 0 - 1], EmptyDict}
\* commands handed to query: two mapped ones and the poll loop's multi-PID command
QueryCmds == {"RPM", "COOLANT_TEMP", "MULTI_GROUP"}

InitWireless ==
  /\ a_is_connected = FALSE /\ c_is_connected = FALSE /\ last_data = EmptyDict
  /\ stop_thread = FALSE /\ data_thread = 0 /\ workers = <<>> /\ pid_mapping = FALSE
  /\ now = 0 /\ w_pc = "idle" /\ q_cmd = "" /\ q_time = 0 /\ q_conn = FALSE
  /\ q_result = NoResponse /\ http_gets = 0 /\ data_lock = 0
  /\ BatchIdle /\ ParseIdle /\ LoopIdle /\ ProbeIdle /\ LogIdle /\ FilterIdle

\* a start_data_thread that starts a thread at every call
StartsThread_always(alive) == TRUE

\* start_data_thread, line 77: if self.data_thread is None or not
\* self.data_thread.is_alive()
StartsThread(alive) == ~alive

\* WirelessOBDConnection.start, lines 277-281, over WirelessOBDAdapter.connect,
\* lines 47-65, and start_data_thread, lines 75-80.  status is what the GET of
\* /status gives: "200", another code ("500") or a RequestException ("exc").
WStart ==
  /\ w_pc = "idle"
  /\ http_gets < MaxRequests
  /\ http_gets' = http_gets + 1
  /\ \E status \in {"200", "500", "exc"} :
       /\ c_is_connected' = (status = "200")
       /\ a_is_connected' = IF status = "exc" THEN FALSE ELSE a_is_connected
       /\ IF status = "200" /\ StartsThread(DataThreadAlive)
          THEN /\ Len(workers) < MaxWorkers
               /\ stop_thread' = FALSE
               /\ workers' = Append(workers, "check")
               /\ data_thread' = Len(workers) + 1
          ELSE UNCHANGED <<stop_thread, workers, data_thread, gvars, kvars>>
  /\ UNCHANGED <<data_lock,
                 last_data, pid_mapping, now, w_pc, q_cmd, q_conn, q_time, q_result,
                 bvars, pvars, lvars, fvars, gvars, kvars>>

\* WirelessOBDConnection.stop / WirelessOBDAdapter.disconnect, lines 69-71:
\* raise the stop flag and join the worker for at most 2 seconds
WStopBegin ==
  /\ w_pc = "idle"
  /\ stop_thread' = TRUE
  /\ w_pc' = "joining"
  /\ UNCHANGED <<data_lock,
                 a_is_connected, c_is_connected, last_data, data_thread, workers, pid_mapping,
                 now, q_cmd, q_conn, q_time, q_result, http_gets, bvars, pvars, lvars, fvars, gvars, kvars>>

\* lines 71-73 and 286: the join returns, because the worker is gone or
\* because it sits in a request (timeout 5 s) longer than the 2 s of the join
WStopEnd ==
  /\ w_pc = "joining"
  /\ IF DataThreadAlive THEN workers[data_thread] = "fetch" ELSE TRUE
  /\ a_is_connected' = FALSE
  /\ c_is_connected' = FALSE
  /\ w_pc' = "idle"
  /\ UNCHANGED <<data_lock,
                 last_data, stop_thread, data_thread, workers, pid_mapping, now,
                 q_cmd, q_conn, q_time, q_result, http_gets, bvars, pvars, lvars, fvars, gvars, kvars>>

\* _data_loop, lines 111-112: (build pid_mapping,) test "while not self.stop_thread"
WorkerCheck(i) ==
  /\ workers[i] = "check"
  /\ pid_mapping' = TRUE
  /\ workers' = [workers EXCEPT ![i] = IF stop_thread THEN "dead" ELSE "fetch"]
  /\ UNCHANGED <<data_lock,
                 a_is_connected, c_is_connected, last_data, stop_thread, data_thread, now,
                 w_pc, q_cmd, q_conn, q_time, q_result, http_gets, bvars, pvars, lvars, fvars, gvars, kvars>>

\* what the GET of /data can give: 200, another status ("500"), or a
\* requests.exceptions.RequestException (timeout, connection error: "exc")
FetchStatuses == {"200", "500", "exc"}

\* a loop that drops the cache when a fetch fails
FetchStore_drop(cache, status, data) ==
  IF status = "200" THEN data ELSE EmptyDict

\* line 118: on 200 last_data is replaced by the payload; nothing else
\* assigns it
FetchStore(cache, status, data) ==
  IF status = "200" THEN data ELSE cache

\* a store that lets go of the lock between the payload and its timestamp
LockAfterAssign_released(i) == 0

\* lines 117-118: "with self.data_lock:" is held by thread i after the
\* assignment of the payload; 0 is the free lock
LockAfterAssign(i) == i

\* _data_loop, lines 113-126: GET /data; on 200 take the lock, store the
\* payload and go on to its timestamp, else go to the warning of the failure
WorkerFetch(i) ==
  /\ workers[i] = "fetch"
  /\ http_gets < MaxRequests
  /\ http_gets' = http_gets + 1
  /\ \E status \in FetchStatuses, data \in WPayloads :
       /\ last_data' = FetchStore(last_data, status, data)
       /\ IF status = "200"
          THEN /\ data_lock = 0
               /\ data_lock' = LockAfterAssign(i)
               /\ workers' = [workers EXCEPT ![i] = "stamp"]
          ELSE /\ data_lock' = data_lock
               /\ workers' = [workers EXCEPT ![i] = "warn"]
  /\ UNCHANGED <<a_is_connected, c_is_connected, stop_thread, data_thread, pid_mapping, now,
                 w_pc, q_cmd, q_conn, q_time, q_result, bvars, pvars, lvars, fvars, gvars, kvars>>

\* line 119: self.last_data['timestamp'] = time.time(), the end of the
\* with block, then the sleep of line 129 and the loop test
WorkerStamp(i) ==
  /\ workers[i] = "stamp"
  /\ last_data' = DictPut(last_data, "timestamp", now)
  /\ data_lock' = 0
  /\ workers' = [workers EXCEPT ![i] = "check"]
  /\ UNCHANGED <<a_is_connected, c_is_connected, stop_thread, data_thread, pid_mapping, now,
                 w_pc, q_cmd, q_conn, q_time, q_result, http_gets, bvars, pvars, lvars, fvars, gvars, kvars>>

\* a loop that ends on a failed fetch
AfterWarning_fatal == "dead"

\* lines 120-129: after logger.warning (and the pause of line 126 after an
\* exception) the loop sleeps 50 ms and goes back to its test
AfterWarning == "check"

\* _data_loop, lines 121 and 124-129: the warning of a failed fetch
WorkerWarn(i) ==
  /\ workers[i] = "warn"
  /\ workers' = [workers EXCEPT ![i] = AfterWarning]
  /\ UNCHANGED <<data_lock,
                 a_is_connected, c_is_connected, last_data, stop_thread, data_thread,
                 pid_mapping, now, w_pc, q_cmd, q_conn, q_time, q_result, http_gets,
                 bvars, pvars, lvars, fvars, gvars, kvars>>

\* a second passes
WTick ==
  /\ now < MaxTime
  /\ now' = now + 1
  /\ UNCHANGED <<data_lock,
                 a_is_connected, c_is_connected, last_data, stop_thread, data_thread, workers,
                 pid_mapping, w_pc, q_cmd, q_conn, q_time, q_result, http_gets, bvars, pvars, lvars, fvars, gvars, kvars>>

\* a query that fetches /data itself before it answers
QueryEffects_refetch(data, gets) == [cache |-> data, gets |-> gets + 1]

\* what query does to the cache and to the network, lines 142-169: it copies
\* last_data under the lock and calls neither requests.get nor a setter
QueryEffects(data, gets) == [cache |-> data, gets |-> gets]

\* lines 142-146: query comes to "with self.data_lock:" when both
\* is_connected flags are set, and then waits for the lock
QueryTakesLock(cconn, isconn) == cconn /\ isconn

\* WirelessOBDConnection.query(cmd) by the caller thread
WQuery ==
  /\ w_pc = "idle"
  /\ QueryTakesLock(c_is_connected, a_is_connected) => data_lock = 0
  /\ \E cmd \in QueryCmds :
       /\ q_cmd' = cmd
       /\ q_result' = ConnectionQuery(c_is_connected, a_is_connected, last_data, now, cmd)
  /\ q_time' = now
  /\ q_conn' = c_is_connected
  /\ last_data' = QueryEffects(last_data, http_gets).cache
  /\ http_gets' = QueryEffects(last_data, http_gets).gets
  /\ UNCHANGED <<data_lock,
                 a_is_connected, c_is_connected, stop_thread, data_thread, workers,
                 pid_mapping, now, w_pc, bvars, pvars, lvars, fvars, gvars, kvars>>

WorkerChecks == \E i \in DOMAIN workers : WorkerCheck(i)
WorkerFetches == \E i \in DOMAIN workers : WorkerFetch(i)
WorkerWarns == \E i \in DOMAIN workers : WorkerWarn(i)
WorkerStamps == \E i \in DOMAIN workers : WorkerStamp(i)

NextWireless ==
  WStart \/ WStopBegin \/ WStopEnd \/ WorkerChecks \/ WorkerFetches \/ WorkerStamps
  \/ WorkerWarns
  \/ WTick \/ WQuery
SpecWireless == InitWireless /\ [][NextWireless]_vars

\* the worker threads are scheduled: a thread at the loop test, at the
\* timestamp or at the warning takes its step
SpecWirelessLive ==
  InitWireless /\ [][NextWireless]_vars /\ WF_vars(WorkerChecks) /\ WF_vars(WorkerWarns)
  /\ WF_vars(WorkerStamps)

(***************************************************************************)
(* SpecProbe: obd_socketcan_probe.py, the requests it puts on the SocketCAN *)
(* bus and the frames it takes as replies                                   *)
(***************************************************************************)
\* the PIDs of one run and the frames received in one window, at most
MaxProbePids == 2
MaxRecv == 2

\* 0x7DF, 0x7E8 and 0x7EF
FunctionalId == 2015
FirstReplyId == 2024
LastReplyId == 2031

\* values of --pids: int(x, 16) of what the user typed, 0x1FF too
ProbePids == {5, 12, 13, 511}

\* a request without the padding
make_request_unpadded(pid) ==
  [arbitration_id |-> FunctionalId, data |-> <<2, 1, pid>>]

\* make_request, lines 25-28: [0x02, 0x01, pid] + [0x00] * 5 under ID 0x7DF
make_request(pid) ==
  [arbitration_id |-> FunctionalId, data |-> <<2, 1, pid>> \o [i \in 1..5 |-> 0]]

\* line 69: if 0x7E8 <= r.arbitration_id <= 0x7EF
IsReplyId(id) == FirstReplyId <= id /\ id <= LastReplyId

\* decode_response, lines 31-56; None is [name |-> "None"], a value is the
\* fraction num/den
decode_response(d) ==
  IF Len(d) < 3 \/ d[2] # 65 THEN [name |-> "None", num |-> 0, den |-> 1]
  ELSE IF d[3] = 12 /\ Len(d) >= 5 THEN [name |-> "RPM", num |-> 256 * d[4] + d[5], den |-> 4]
  ELSE IF d[3] = 13 /\ Len(d) >= 4 THEN [name |-> "Speed", num |-> d[4], den |-> 1]
  ELSE IF d[3] = 5 /\ Len(d) >= 4 THEN [name |-> "Coolant Temp", num |-> d[4] - 40, den |-> 1]
  ELSE [name |-> "PID", num |-> d[3], den |-> 1]

\* what bus.recv can return: frames of ECUs, of the tester itself and of
\* other nodes, with a reply or with something else in them
BusIds == {FunctionalId, FirstReplyId - 1, FirstReplyId, LastReplyId, LastReplyId + 1}
BusData == {<<4, 65, 12, 26, 222, 0, 0, 0>>, <<3, 65, 5, 80, 0, 0, 0, 0>>, <<3, 127, 1, 18>>}
BusFrames == {[arbitration_id |-> id, data |-> d] : id \in BusIds, d \in BusData}

\* line 92 over lines 89-91: with --filter-responses the socket hands over
\* only frames with (id & 0x7F8) = 0x7E8
Received(filter) ==
  IF filter THEN {r \in BusFrames : (r.arbitration_id \div 8) * 8 = FirstReplyId} ELSE BusFrames

InitProbe ==
  /\ f_pids \in SeqsUpTo(ProbePids, MaxProbePids) \ {<<>>}
  /\ f_idx = 0
  /\ f_filter \in BOOLEAN
  /\ f_sent = <<>> /\ f_results = <<>> /\ f_recvs = 0
  /\ f_pc = "loop"
  /\ BatchIdle /\ ParseIdle /\ LoopIdle /\ WirelessIdle /\ LogIdle /\ FilterIdle

\* main, line 98, and send_and_listen, lines 60-61: build the request of
\* the next PID and send it; bytearray raises ValueError on a byte over 255
ProbeSend ==
  /\ f_pc = "loop" /\ f_idx < Len(f_pids)
  /\ f_idx' = f_idx + 1
  /\ f_results' = <<>> /\ f_recvs' = 0
  /\ IF f_pids[f_idx + 1] > 255
     THEN f_pc' = "raised" /\ f_sent' = f_sent
     ELSE f_pc' = "listen" /\ f_sent' = Append(f_sent, make_request(f_pids[f_idx + 1]))
  /\ UNCHANGED <<f_pids, f_filter, bvars, pvars, lvars, wvars, gvars, kvars>>

\* send_and_listen, lines 64-71: a frame arrives within the window
ProbeRecv ==
  /\ f_pc = "listen" /\ f_recvs < MaxRecv
  /\ f_recvs' = f_recvs + 1
  /\ \E r \in Received(f_filter) :
       f_results' = IF IsReplyId(r.arbitration_id)
                    THEN Append(f_results, [frame |-> r, decoded |-> decode_response(r.data)])
                    ELSE f_results
  /\ UNCHANGED <<f_pids, f_idx, f_filter, f_sent, f_pc, bvars, pvars, lvars, wvars, gvars, kvars>>

\* send_and_listen, lines 63 and 72: the window is over; main goes to the
\* next PID or, without --loop, ends (lines 98-117)
ProbeWindowEnd ==
  /\ f_pc = "listen"
  /\ f_pc' = IF f_idx < Len(f_pids) THEN "loop" ELSE "done"
  /\ UNCHANGED <<f_pids, f_idx, f_filter, f_sent, f_results, f_recvs,
                 bvars, pvars, lvars, wvars, gvars, kvars>>

NextProbe == ProbeSend \/ ProbeRecv \/ ProbeWindowEnd
SpecProbe == InitProbe /\ [][NextProbe]_vars

(***************************************************************************)
(* Claims about chunker (SpecBatch)                                        *)
(***************************************************************************)
\* C1: for every list of length n, n = 0 included, chunker(list, 6) yields
\* exactly ceil(n/6) groups, each of 1..6 elements, group i (0-based) being
\* elements [6i, 6i+6) of the list, and the groups concatenated give the list.
C1_BatchPartition ==
  b_pc = "done" =>
    LET n == Len(b_seq) IN
    /\ Len(b_groups) = (n + 5) \div 6
    /\ \A i \in DOMAIN b_groups :
         /\ Len(b_groups[i]) >= 1 /\ Len(b_groups[i]) <= 6
         /\ b_groups[i] = SubSeq(b_seq, 6 * (i - 1) + 1, Min(6 * i, n))
    /\ Concat(b_groups) = b_seq

C1_Witness ==
  /\ b_pc = "done" /\ Len(b_seq) = 13
  /\ Len(b_groups) = 3 /\ Len(b_groups[3]) = 1

(***************************************************************************)
(* Claims about _parse_multi_pid_response (SpecParse)                       *)
(***************************************************************************)
GroupNames(g) == {g[i].name : i \in DOMAIN g}
GroupPids(g) == {g[i].pid : i \in DOMAIN g}
CmdOfPid(g, p) == g[CHOOSE i \in DOMAIN g : g[i].pid = p]
ValueLen(c) == c.bytes - 2
\* the record the claim expects a value to be decoded from
Expected(c, value) == decode(c, <<65, c.pid>> \o value)

\* the reply m reads 41, [pidA, valueA], `gap` further bytes the first of which
\* is no PID code of the group g, [pidB, valueB], and nothing else
RecoveryShape(m, g, gap) ==
  /\ Len(m) >= 2 /\ m[1] = 65 /\ m[2] \in GroupPids(g)
  /\ LET ix == 3 + ValueLen(CmdOfPid(g, m[2]))
         ib == ix + gap
     IN /\ Len(m) >= ib
        /\ m[ix] \notin GroupPids(g)
        /\ m[ib] \in GroupPids(g)
        /\ Len(m) = ib + ValueLen(CmdOfPid(g, m[ib]))

\* both A and B are in the returned dict with the values of their own bytes
RecoveryDecoded(m, g, gap) ==
  LET A == CmdOfPid(g, m[2])
      ix == 3 + ValueLen(A)
      ib == ix + gap
      B == CmdOfPid(g, m[ib])
  IN /\ {A.name, B.name} \subseteq DOMAIN results
     /\ results[B.name] = Expected(B, SubSeq(m, ib + 1, Len(m)))
     /\ A # B => results[A.name] = Expected(A, SubSeq(m, 3, ix - 1))

\* C2 as stated: with ONE byte that is no PID code of the group between
\* [pidA, valueA] and [pidB, valueB], both A and B are decoded.
C2_SkipOneByte_Original ==
  (p_pc = "ret" /\ RecoveryShape(messages[1], group, 1))
    => RecoveryDecoded(messages[1], group, 1)

\* the pass of the loop body that meets a PID byte that is not in the group
AtUnknownPid ==
  /\ p_pc = "loop" /\ pointer < Len(full_response_hex)
  /\ IntOfHex(Slice(full_response_hex, pointer, pointer + 2)) \notin GroupPids(group)

\* C2 amended: on a PID byte that is not in the group the cursor advances by
\* exactly 2 bytes (4 hex digits: the byte and one byte taken to be its
\* value) and scanning continues, so a reply 41, [pidA, valueA], an unknown
\* PID byte and one more byte, [pidB, valueB] yields both A and B.
C2_SkipPidAndValue ==
  /\ []((p_pc = "ret" /\ RecoveryShape(messages[1], group, 2))
          => RecoveryDecoded(messages[1], group, 2))
  /\ [][AtUnknownPid => (pointer' = pointer + 4 /\ p_pc' = "loop" /\ results' = results)]_vars

C2_Witness ==
  /\ p_pc = "ret" /\ RecoveryShape(messages[1], group, 2)
  /\ Len(messages[1]) = 8 /\ Cardinality(DOMAIN results) = 2

RECURSIVE TupleBytes(_, _)
\* bytes taken by the [pid, value] tuples of the first k commands of g
TupleBytes(g, k) == IF k = 0 THEN 0 ELSE TupleBytes(g, k - 1) + 1 + ValueLen(g[k])
\* m is 41 followed by one [pid, value] tuple per command of g, in group order
Synthetic(m, g) ==
  /\ Len(m) = 1 + TupleBytes(g, Len(g)) /\ m[1] = 65
  /\ \A i \in DOMAIN g : m[2 + TupleBytes(g, i - 1)] = g[i].pid
\* the value bytes put in for the i-th command
ValuePutIn(m, g, i) ==
  SubSeq(m, 3 + TupleBytes(g, i - 1), 2 + TupleBytes(g, i - 1) + ValueLen(g[i]))

\* C3: for a group of distinct PID codes and any value bytes of the catalogued
\* lengths, parsing 41 + concatenated [pid, value] tuples returns exactly one
\* entry per PID of the group, each decoded from the bytes put in for it.
C3_RoundTrip ==
  (p_pc = "ret" /\ Synthetic(messages[1], group)) =>
     results = [n \in GroupNames(group) |->
                  LET i == CHOOSE k \in DOMAIN group : group[k].name = n
                  IN Expected(group[i], ValuePutIn(messages[1], group, i))]

C3_Witness ==
  /\ p_pc = "ret" /\ Len(group) = 3
  /\ Synthetic(messages[1], group)
  /\ DOMAIN results = GroupNames(group)
  /\ results["RPM"] # results["SPEED"]

\* the pass of the loop body that meets a PID byte of the group whose value
\* bytes run past the end of the reply
AtTruncatedField ==
  /\ p_pc = "loop" /\ pointer < Len(full_response_hex)
  /\ LET p == IntOfHex(Slice(full_response_hex, pointer, pointer + 2))
     IN /\ p \in GroupPids(group)
        /\ pointer + 2 + 2 * ValueLen(CmdOfPid(group, p)) > Len(full_response_hex)

\* C4: when the reply ends before the value bytes of a recognized PID are
\* complete, the parser stops and returns (no error) exactly the fields
\* decoded before that point; the truncated field adds no entry.
C4_TruncatedKeepsPartial ==
  [][AtTruncatedField => (p_pc' = "ret" /\ p_exit' = "incomplete" /\ results' = results)]_vars

C4_Witness ==
  /\ p_pc = "ret" /\ p_exit = "incomplete"
  /\ DOMAIN results = {"RPM"} /\ Len(group) = 3

\* C5: a reply that does not begin with the byte 0x41 (the empty reply
\* included) yields the empty dict, and no field is looked at.
C5_FailFast ==
  (p_pc \in {"loop", "ret"} /\ (messages[1] = <<>> \/ messages[1][1] # 65))
    => (results = EmptyDict /\ p_pc = "ret" /\ p_exit = "fail_fast" /\ pointer = 0)

C5_Witness ==
  /\ p_pc = "ret" /\ Len(messages[1]) = 3 /\ messages[1][1] = 64
  /\ messages[1][2] \in GroupPids(group) /\ results = EmptyDict

\* C6: every name in the returned dict is the name of a command of the group
\* of this call; a PID byte of a catalog command outside the group is never
\* decoded or stored.
C6_OnlyGroupNames ==
  DOMAIN results \subseteq GroupNames(group)

C6_Witness ==
  /\ p_pc = "ret" /\ group = <<commands.COOLANT_TEMP>>
  /\ Len(messages[1]) = 5 /\ messages[1][1] = 65
  /\ messages[1][2] = commands.RPM.pid /\ messages[1][4] = commands.COOLANT_TEMP.pid
  /\ DOMAIN results = {"COOLANT_TEMP"}

(***************************************************************************)
(* Claims about the poll loop (Spec)                                       *)
(***************************************************************************)
\* the group whose response is in `response`
ProcessedGroup == groups[grp_idx]
JustProcessed == l_pc = "groups" /\ grp_idx >= 1

\* C7: in every tick, when the query for a group returns null, every PID
\* name of that group is "N/A" in data_store once the group has been
\* processed, whatever value it held before.
C7_NullMarksGroupUnavailable ==
  (JustProcessed /\ response.null) =>
     \A i \in DOMAIN ProcessedGroup :
        /\ ProcessedGroup[i].name \in DOMAIN data_store
        /\ data_store[ProcessedGroup[i].name] = NA

C7_Witness ==
  /\ JustProcessed /\ response.null
  /\ \E i \in DOMAIN ProcessedGroup :
       LET n == ProcessedGroup[i].name
       IN /\ n \in DOMAIN ds_before /\ ~ds_before[n].na
          /\ data_store[n] = NA

CacheAge == now - DictGet(last_data, "timestamp", 0)

\* C9: query returns null whenever the cached payload is older than the
\* staleness window of 5 seconds, even though a payload is cached.
C9_StaleCacheGivesNull ==
  [][(WQuery /\ last_data # EmptyDict /\ CacheAge > 5) => q_result'.null]_vars

C9_Witness ==
  /\ q_cmd \in DOMAIN WMapping /\ q_time = now /\ q_conn
  /\ last_data # EmptyDict /\ WMapping[q_cmd] \in DOMAIN last_data
  /\ CacheAge > 5
  /\ q_result.null

\* C10: after start has succeeded and the worker has cached a payload whose
\* age is within the 5 seconds, query for a PID that the adapter maps to a
\* field of that payload returns a non-null response with the cached value.
C10_FreshCacheAnswered ==
  [][(/\ WQuery
      /\ c_is_connected
      /\ last_data # EmptyDict /\ CacheAge <= 5
      /\ q_cmd' \in DOMAIN WMapping
      /\ WMapping[q_cmd'] \in DOMAIN last_data)
       => (~q_result'.null /\ q_result'.value = last_data[WMapping[q_cmd']])]_vars

\* C11: a query step sends no HTTP request and leaves the cached payload,
\* its timestamp included, as it was, whatever it returns.
C11_QueryReadsOnly ==
  [][WQuery => (http_gets' = http_gets /\ last_data' = last_data)]_vars

C11_Witness ==
  /\ q_cmd # "" /\ q_conn /\ q_time = now
  /\ last_data # EmptyDict /\ "timestamp" \in DOMAIN last_data
  /\ http_gets >= 2

(***************************************************************************)
(* Claims about the timing of a tick (Spec)                                *)
(***************************************************************************)
Max(a, b) == IF a > b THEN a ELSE b
\* a tick has run to its end: its duration was measured and its sleep done
TickDone == l_pc \in {"top", "exited"} /\ cycle_ms > 0

\* C12: the sleep that ends a tick is max(0, targetInterval - cycleDuration),
\* so a tick and its sleep together take at most max(targetInterval,
\* cycleDuration).
C12_SleepsTheRemainder ==
  TickDone => /\ sleep_ms = Max(0, interval_ms - cycle_ms)
              /\ cycle_ms + sleep_ms <= Max(interval_ms, cycle_ms)

\* C13 as stated: one warning exactly when the cycle exceeded the target,
\* and that warning carries cycleDuration - targetInterval.
C13_WarningCarriesOverrun_Original ==
  TickDone =>
    /\ Len(warnings) = (IF cycle_ms > interval_ms THEN 1 ELSE 0)
    /\ \A i \in DOMAIN warnings :
         \E j \in DOMAIN warnings[i] : warnings[i][j] = cycle_ms - interval_ms

\* C13: in each tick exactly one overrun warning is emitted if the measured
\* cycle duration exceeds the target interval and none otherwise; the warning
\* carries the cycle duration and the target interval (not their difference),
\* and the worker goes on to the next loop test.
C13_OneWarningPerOverrun ==
  TickDone =>
    /\ Len(warnings) = (IF cycle_ms > interval_ms THEN 1 ELSE 0)
    /\ \A i \in DOMAIN warnings : warnings[i] = <<cycle_ms, interval_ms>>

C13_Witness ==
  /\ l_pc = "top" /\ running /\ cycle_ms = 180 /\ interval_ms = 100
  /\ warnings = << <<180, 100>> >>

(***************************************************************************)
(* Claims about stop() (Spec, SpecLive)                                    *)
(***************************************************************************)
WorkerEnded == l_pc \in {"exited", "crashed"}

\* C14: once stop() has cleared the flag the worker begins no further tick,
\* it leaves the loop only with every group of the tick in progress
\* processed, it eventually terminates, and a terminated worker and a cleared
\* flag stay as they are.
C14_StopIsCooperative ==
  /\ [][stop_called => ~(l_pc = "top" /\ l_pc' = "groups")]_vars
  /\ [](l_pc = "exited" => grp_idx = Len(groups))
  /\ [][(l_pc = "groups" /\ l_pc' # "groups") => grp_idx = Len(groups)]_vars
  /\ [][(WorkerEnded => l_pc' = l_pc) /\ (stop_called => (stop_called' /\ ~running'))]_vars
  /\ (stop_called ~> WorkerEnded)

\* stop() came in the middle of a tick of two groups with a group still to
\* do, and the worker did that group and then returned
C14_Witness ==
  /\ stop_at.pc = "groups" /\ stop_at.grp < Len(groups)
  /\ Len(groups) = 2 /\ grp_idx = 2
  /\ l_pc = "exited"

UnavailableSession == l_pc \notin {"idle", "start"} /\ ~connect_ok

\* the connection_status values that report an error
ErrorStatuses ==
  {"Error: OBD connection not configured.",
   "Error: python-can not available; cannot open socketcan",
   "SocketCAN open failed",
   "Error: Wireless CAN configuration invalid.",
   "Wireless CAN connection failed.",
   "Error: python-obd not installed; serial adapters disabled.",
   "Error: Baud rate not configured in config.json.",
   "Error: python-obd not available at connect time.",
   "Connection failed.",
   "Connection error"}

\* C16: in a session that runs without a transport, connection_status is an
\* Error value in no state from the start of the worker to its stop.
C16_NeverErrorWhenUnavailable ==
  UnavailableSession => data_store["connection_status"] \notin ErrorStatuses

SelectedNames == {selected_pids[i] : i \in DOMAIN selected_pids}

\* C17: in a session that runs without a transport no query returns a value
\* and no selected PID has anything but Unavailable in the store, in every
\* state of the session.
C17_AlwaysUnavailable ==
  UnavailableSession =>
    /\ response.null
    /\ \A n \in SelectedNames : n \in DOMAIN data_store => data_store[n] = NA

(***************************************************************************)
(* Claims about the transport variants and about failures (Spec)           *)
(***************************************************************************)
\* C18: whatever connection object the loop was given, it answers every
\* operation run and stop() invoke on it, in the form they invoke it, and no
\* such call fails in stop().
C18_VariantsAnswerEveryCall ==
  /\ connection.kind # "None" => LoopCalls \subseteq Provides(connection.kind)
  /\ s_pc # "raised"

\* C19: no error propagates out of run: the worker thread never dies.
C19_WorkerNeverDies == l_pc # "crashed"

\* the reply to a group whose last value byte is missing, the values b
TruncatedReply(g, b) == SubSeq(FullReply(g, b), 1, Len(FullReply(g, b)) - 1)
\* the negative response
FailedReply == <<127, 1, 18>>
UniformValue(c, b) == Expected(c, [i \in 1..ValueLen(c) |-> b])

\* the reply to group k of this tick failed to parse or was cut short
BadReplyAt(k) ==
  /\ k \in DOMAIN replies
  /\ \/ replies[k] = FailedReply
     \/ \E b \in ReplyBytes : replies[k] = TruncatedReply(groups[k], b)

\* C20: a reply that fails to parse or is cut short touches its own group
\* only: the fields decoded before the cut are in the store right after the
\* group, the worker does not leave the group loop while a group is left,
\* and a later group answered in full is stored in full.
C20_FailureConfinedToGroup ==
  /\ [](JustProcessed =>
          \A b \in ReplyBytes :
             LET g == ProcessedGroup IN
             /\ replies[grp_idx] = TruncatedReply(g, b) =>
                  \A i \in 1..(Len(g) - 1) : data_store[g[i].name] = Num(UniformValue(g[i], b))
             /\ (replies[grp_idx] = FullReply(g, b) /\ \E k \in 1..(grp_idx - 1) : BadReplyAt(k)) =>
                  \A i \in 1..Len(g) : data_store[g[i].name] = Num(UniformValue(g[i], b)))
  /\ [][(l_pc = "groups" /\ grp_idx < Len(groups)) =>
          (l_pc' = "groups" /\ groups' = groups /\ grp_idx' \in {grp_idx, grp_idx + 1})]_vars
  /\ [][(l_pc = "groups" /\ grp_idx' = grp_idx + 1) =>
          Len(replies') = grp_idx' /\
          (response'.null \/ response'.value = parse_multi_pid_response(<<replies'[grp_idx']>>, groups[grp_idx']))]_vars

\* the first group's reply was cut short, its first five fields are stored,
\* and the second group has been queried, parsed and stored after it
C20_Witness ==
  /\ JustProcessed /\ grp_idx = 2
  /\ replies[1] = TruncatedReply(groups[1], 80)
  /\ replies[2] = FullReply(groups[2], 5)
  /\ data_store[groups[1][1].name] = Num(UniformValue(groups[1][1], 80))
  /\ data_store[groups[2][1].name] = Num(UniformValue(groups[2][1], 5))

(***************************************************************************)
(* Claims about reconnecting (SpecLive)                                    *)
(***************************************************************************)
\* C21: after a connect failure the worker, for as long as it is kept
\* running, eventually calls connect_obd again.
C21_RetriesConnect ==
  [](( UnavailableSession /\ l_pc = "top" /\ running) => <>(l_pc = "start" \/ ~running))

(***************************************************************************)
(* Claims about the store and its threads (SpecStore)                      *)
(***************************************************************************)
\* C22: no step takes a key out of the store.
C22_KeysOnlyGrow ==
  [][DOMAIN data_store \subseteq DOMAIN data_store']_vars

\* keys were added by the tick, by an external sensor and by a polled group,
\* and a log was started and stopped
C22_Witness ==
  /\ {"pid_groups_per_cycle", "last_cycle_duration_ms", "Fuel_metrics", "wideband_afr",
      "BAROMETRIC_PRESSURE", "log_active"} \subseteq DOMAIN data_store
  /\ ~data_store["log_active"] /\ data_store["log_file_name"] = "log.csv"
  /\ s_pc = "done"

\* C23: the store changes in steps of the poll worker only.
C23_OnlyWorkerWrites ==
  [][data_store' # data_store => (WorkerNext \/ ProcessGroup)]_vars

\* C24: while a reader iterates over the store no key is inserted into it.
C24_NoInsertUnderReader ==
  [][r_pc = "iterating" => DOMAIN data_store' = DOMAIN data_store]_vars

(***************************************************************************)
(* Claims about the order of the groups and the selection (Spec)           *)
(***************************************************************************)
\* C25: a query is issued for the group that follows the ones already done,
\* in the order of the batcher, and only after the replies of all earlier
\* groups of the tick were received; its reply is parsed and merged into the
\* store in the same pass, before the next query.
C25_GroupsInOrder ==
  [][(replies' # replies /\ replies' # <<>>) =>
       LET batches == chunker(commands_to_query, GroupSize)
           i == Len(replies')
       IN /\ Len(replies) = grp_idx /\ i = grp_idx + 1 /\ grp_idx' = i
          /\ i <= Len(batches)
          /\ replies'[i] \in {<<>>} \cup LoopReplies(batches[i])
          /\ IF replies'[i] = <<>> THEN response' = NullResponse
             ELSE response' = [null |-> FALSE,
                               value |-> parse_multi_pid_response(<<replies'[i]>>, batches[i])]
          /\ data_store' = StoreResponse(data_store, response', batches[i])
          /\ ds_before' = data_store]_vars

\* a tick with two groups, both answered
C25_Witness ==
  /\ Len(groups) = 2 /\ grp_idx = 2 /\ Len(replies) = 2
  /\ replies[1] = FullReply(groups[1], 80) /\ replies[2] = FullReply(groups[2], 5)
  /\ data_store["RPM"] = Num([num |-> BytesToInt(<<80, 80>>), den |-> 4])
  /\ data_store["BAROMETRIC_PRESSURE"] = Num([num |-> 5, den |-> 1])

\* the selected names the catalog of python-obd has, as commands, each once
\* and in selection order
ResolvedSelection == build_pid_list(selected_pids, TRUE)

\* the selected commands among those of the groups of the tick, in their order
GroupedSelection ==
  FilterSeq(Concat(groups), {commands[n] : n \in SelectedNames \cap CommandNames})

WorkerAt(i) == IF i \in DOMAIN workers THEN workers[i] ELSE "none"

\* C27: a fetch that fails leaves last_data (payload and timestamp) as it
\* was and does not end the worker, and a worker that had a failed fetch
\* comes to its next GET unless the stop flag was raised.
C27_FailedFetchNotFatal ==
  /\ [][\A i \in DOMAIN workers :
          /\ (workers[i] = "fetch" /\ workers'[i] = "warn") => last_data' = last_data
          /\ workers[i] = "warn" => workers'[i] \in {"warn", "check"}]_vars
  /\ \A i \in 1..MaxWorkers :
       (WorkerAt(i) = "warn") ~> (WorkerAt(i) = "fetch" \/ stop_thread)

\* a fetch has failed after one that filled the cache, and the cache is kept
C27_Witness ==
  \E i \in DOMAIN workers :
    /\ workers[i] = "warn" /\ ~stop_thread
    /\ "rpm" \in DOMAIN last_data /\ last_data["timestamp"] < now

(***************************************************************************)
(* Claims about decoded values (SpecParse)                                 *)
(***************************************************************************)
\* C29: for the group RPM, COOLANT_TEMP the reply "410C1ADE0550" parses to
\* exactly RPM = 6878/4 = 1719.5 and COOLANT_TEMP = 80 - 40 = 40.
C29_ExampleDecodes ==
  (p_pc = "ret" /\ messages = <<fromhex(ExampleHex)>>
     /\ group = <<commands.RPM, commands.COOLANT_TEMP>>)
  => results = [RPM |-> [num |-> 6878, den |-> 4], COOLANT_TEMP |-> [num |-> 40, den |-> 1]]

C29_Witness ==
  /\ p_pc = "ret" /\ p_exit = "end" /\ full_response_hex = ExampleHex
  /\ group = <<commands.RPM, commands.COOLANT_TEMP>>
  /\ DOMAIN results = {"RPM", "COOLANT_TEMP"}
  /\ 4 * 1719 + 2 = results["RPM"].num

(***************************************************************************)
(* Claims about a tick with nothing to poll (Spec)                         *)
(***************************************************************************)
\* the store entries under PID names: the catalog's and the mock generator's
PidEntryNames == CommandNames \cup MockNames

\* the PID entries that a step writes: new ones and ones with a new value
PidEntriesWritten ==
  {n \in PidEntryNames \cap DOMAIN data_store' :
     IF n \in DOMAIN data_store THEN data_store'[n] # data_store[n] ELSE TRUE}

\* a step of a tick of the loop while the list of commands to poll is empty
EmptyListTickStep ==
  l_pc \in {"top", "groups"} /\ commands_to_query = <<>> /\ l_pc' \in {"top", "groups"}

C28_FrameFormat ==
  /\ \A i \in DOMAIN f_sent :
       /\ f_sent[i].arbitration_id = 2015
       /\ Len(f_sent[i].data) = 8
       /\ f_sent[i].data[1] = 2 /\ f_sent[i].data[2] = 1
       /\ f_sent[i].data[3] = f_pids[i] /\ f_sent[i].data[3] \in 0..255
       /\ \A k \in 4..8 : f_sent[i].data[k] = 0
  /\ \A j \in DOMAIN f_results :
       f_results[j].frame.arbitration_id >= 2024 /\ f_results[j].frame.arbitration_id <= 2031

\* two requests were sent, and in the window of the second a frame of an ECU
\* was taken while frames under other IDs came in without a filter
C28_Witness ==
  /\ Len(f_sent) = 2 /\ ~f_filter /\ f_pc = "done"
  /\ f_recvs = 2 /\ Len(f_results) = 1
  /\ f_results[1].decoded = [name |-> "RPM", num |-> 6878, den |-> 4]

(***************************************************************************)
(* Claims about the pause between groups (SpecDelay)                       *)
(***************************************************************************)
\* C31: with a positive delay the worker has slept, at any point of a tick,
\* once after each group done that is not the last one: k - 1 times in a
\* tick of k groups, never after the last group; with a delay of 0 (or
\* less) it has not slept.
C31_SleepsBetweenGroups ==
  l_pc = "groups" =>
    LET k == Len(groups)
        between == IF group_delay_ms > 0 THEN Min(grp_idx, k - 1) ELSE 0
    IN /\ group_sleeps = [i \in 1..between |-> i]
       /\ (grp_idx = k /\ group_delay_ms > 0 /\ k > 0) => Len(group_sleeps) = k - 1

\* a tick of two groups is through, with one pause, after the first group
C31_Witness ==
  /\ l_pc = "groups" /\ Len(groups) = 2 /\ grp_idx = 2
  /\ group_delay_ms = 20 /\ group_sleeps = <<1>>

(***************************************************************************)
(* Claims about the dashboard emitter (Spec)                               *)
(***************************************************************************)
\* C32: once connect_obd has returned true, the connection_status it left
\* passes the test of the emitter, so that the pass of the emitter sends
\* current_data.
C32_ConnectedStatusEmits ==
  connect_ok => EmitsCurrentData(data_store["connection_status"])

(***************************************************************************)
(* Claims about the end of the parse loop (SpecParseLive)                  *)
(***************************************************************************)
\* C33: every pass of the loop body begins with a whole PID byte before the
\* cursor's end of the reply, moves the cursor forward by one byte at least,
\* decodes a value only from bytes inside the reply, and leaves the cursor
\* at most one skipped byte behind the end; and every call returns.
C33_ParseLoopTerminates ==
  /\ [][(p_pc = "loop" /\ pointer < Len(full_response_hex)) =>
          LET n == Len(full_response_hex)
              p == IntOfHex(Slice(full_response_hex, pointer, pointer + 2))
          IN /\ pointer + 2 <= n
             /\ pointer' >= pointer + 2
             /\ pointer' <= n + 2
             /\ (p \in GroupPids(group) /\ p_pc' = "loop") =>
                  pointer' = pointer + 2 + 2 * ValueLen(CmdOfPid(group, p)) /\ pointer' <= n
             /\ pointer' > n => p \notin GroupPids(group)]_vars
  /\ <>(p_pc = "ret")

\* the loop has run to its end over a reply whose last byte was an unknown
\* PID: the cursor stands one byte behind the end
C33_Witness ==
  /\ p_pc = "ret" /\ p_exit = "end"
  /\ pointer = Len(full_response_hex) + 2
  /\ DOMAIN results # {}

(***************************************************************************)
(* Claims about the worker threads of the wireless adapter (SpecWireless)  *)
(***************************************************************************)
\* C34: when a connect has succeeded, the adapter's polling worker is alive
\* and the stop flag is clear.
C34_ConnectLeavesWorkerRunning ==
  [][(WStart /\ c_is_connected') => (DataThreadAlive' /\ ~stop_thread')]_vars

\* the worker threads that have not ended
AliveWorkers == {i \in DOMAIN workers : workers[i] # "dead"}

\* C35: at most one polling worker of the adapter is alive.
C35_AtMostOneWorker == Cardinality(AliveWorkers) <= 1

\* a second worker runs after the first one has ended
C35_Witness ==
  /\ Len(workers) = 2 /\ workers[1] = "dead" /\ workers[2] = "fetch"
  /\ ~stop_thread /\ data_thread = 2

\* what a thread that holds data_lock can find in last_data: the empty
\* dict of the constructor, or a payload with the time.time() of its store
CompleteCache(d, t) ==
  IF d = EmptyDict THEN TRUE ELSE DictGet(d, "timestamp", 0 - 1) \in 0..t

\* C36: the payload and its timestamp are replaced together under
\* data_lock: whenever the lock is free, which is when query can take its
\* copy, last_data is empty or a payload stamped with the time of its
\* store, never a payload whose timestamp is missing or is not the worker's
C36_CacheReplacedUnderLock == data_lock = 0 => CompleteCache(last_data, now)

\* a query made at the time a worker has stored and stamped the payload that
\* came with a timestamp field of its own
C36_Witness ==
  /\ data_lock = 0 /\ now > 0 /\ q_time = now /\ q_cmd # ""
  /\ "coolantTemp" \in DOMAIN last_data
  /\ DictGet(last_data, "timestamp", 0 - 1) = now
  /\ \E i \in DOMAIN workers : workers[i] = "check"

(***************************************************************************)
(* SpecLog: the CSV log.  start_log and stop_log are called on the          *)
(* dashboard's (or the CLI's) thread while the worker of run takes the      *)
(* logging step of each cycle; no lock covers log_file, csv_writer,         *)
(* header_written or data_store["log_active"], so each access is a step.    *)
(***************************************************************************)
MaxLogFiles == 2
MaxLogRows == 3

\* open(full_path, mode='w'), line 321: a new, empty file
NewFile == [closed |-> FALSE, rows |-> <<>>]

\* csv_writer.writerow(row) on file f, lines 706 and 855: the row goes to
\* the end of an open file; on a closed file write raises ValueError and
\* the file keeps what it has
WriteRow(fs, f, row) ==
  IF fs[f].closed THEN fs ELSE [fs EXCEPT ![f].rows = Append(@, row)]

RECURSIVE RowsWritten(_, _)
RowsWritten(fs, n) == IF n = 0 THEN 0 ELSE Len(fs[n].rows) + RowsWritten(fs, n - 1)

\* start_log, line 301: "if self.data_store["log_active"]: return"
LogStartTest ==
  /\ lc_pc = "idle"
  /\ ~data_store["log_active"]
  /\ Len(files) < MaxLogFiles
  /\ lc_pc' = "open"
  /\ UNCHANGED <<data_store, log_file, csv_writer, header_written, files, lg_pc,
                 obd, cfg_type, selected_pids, mock_data_mode, running, connection,
                 commands_to_query, groups, grp_idx, response, ds_before, replies, l_pc,
                 stop_called, interval_ms, cycle_ms, warnings, sleep_ms, connect_ok, s_pc,
                 stop_at, esp32_enabled, r_pc, r_len, group_delay_ms, group_sleeps,
                 bvars, pvars, wvars, fvars, kvars>>

\* lines 321-322 and 327-328: open the file and make its writer, or, when
\* open raises, mark the log inactive
LogStartOpen ==
  /\ lc_pc = "open"
  /\ \E ok \in BOOLEAN :
       IF ok
       THEN /\ files' = Append(files, NewFile)
            /\ log_file' = Len(files) + 1
            /\ csv_writer' = Len(files) + 1
            /\ lc_pc' = "flag"
            /\ UNCHANGED data_store
       ELSE /\ data_store' = [data_store EXCEPT !["log_active"] = FALSE]
            /\ lc_pc' = "idle"
            /\ UNCHANGED <<files, log_file, csv_writer>>
  /\ UNCHANGED <<header_written, lg_pc,
                 obd, cfg_type, selected_pids, mock_data_mode, running, connection,
                 commands_to_query, groups, grp_idx, response, ds_before, replies, l_pc,
                 stop_called, interval_ms, cycle_ms, warnings, sleep_ms, connect_ok, s_pc,
                 stop_at, esp32_enabled, r_pc, r_len, group_delay_ms, group_sleeps,
                 bvars, pvars, wvars, fvars, kvars>>

\* line 323: self.header_written = False
LogStartFlag ==
  /\ lc_pc = "flag"
  /\ header_written' = FALSE
  /\ lc_pc' = "active"
  /\ UNCHANGED <<data_store, log_file, csv_writer, files, lg_pc,
                 obd, cfg_type, selected_pids, mock_data_mode, running, connection,
                 commands_to_query, groups, grp_idx, response, ds_before, replies, l_pc,
                 stop_called, interval_ms, cycle_ms, warnings, sleep_ms, connect_ok, s_pc,
                 stop_at, esp32_enabled, r_pc, r_len, group_delay_ms, group_sleeps,
                 bvars, pvars, wvars, fvars, kvars>>

\* lines 324-325: log_active = True, log_file_name = full_path
LogStartActive ==
  /\ lc_pc = "active"
  /\ data_store' = StartLogStore(data_store, TRUE)
  /\ lc_pc' = "idle"
  /\ UNCHANGED <<log_file, csv_writer, header_written, files, lg_pc,
                 obd, cfg_type, selected_pids, mock_data_mode, running, connection,
                 commands_to_query, groups, grp_idx, response, ds_before, replies, l_pc,
                 stop_called, interval_ms, cycle_ms, warnings, sleep_ms, connect_ok, s_pc,
                 stop_at, esp32_enabled, r_pc, r_len, group_delay_ms, group_sleeps,
                 bvars, pvars, wvars, fvars, kvars>>

\* stop_log, line 333: "if not self.data_store["log_active"]: return"
LogStopTest ==
  /\ lc_pc = "idle"
  /\ data_store["log_active"]
  /\ lc_pc' = "close"
  /\ UNCHANGED <<data_store, log_file, csv_writer, header_written, files, lg_pc,
                 obd, cfg_type, selected_pids, mock_data_mode, running, connection,
                 commands_to_query, groups, grp_idx, response, ds_before, replies, l_pc,
                 stop_called, interval_ms, cycle_ms, warnings, sleep_ms, connect_ok, s_pc,
                 stop_at, esp32_enabled, r_pc, r_len, group_delay_ms, group_sleeps,
                 bvars, pvars, wvars, fvars, kvars>>

\* lines 335-336: self.log_file.close()
LogStopClose ==
  /\ lc_pc = "close"
  /\ files' = IF log_file = 0 THEN files ELSE [files EXCEPT ![log_file].closed = TRUE]
  /\ lc_pc' = "inactive"
  /\ UNCHANGED <<data_store, log_file, csv_writer, header_written, lg_pc,
                 obd, cfg_type, selected_pids, mock_data_mode, running, connection,
                 commands_to_query, groups, grp_idx, response, ds_before, replies, l_pc,
                 stop_called, interval_ms, cycle_ms, warnings, sleep_ms, connect_ok, s_pc,
                 stop_at, esp32_enabled, r_pc, r_len, group_delay_ms, group_sleeps,
                 bvars, pvars, wvars, fvars, kvars>>

\* lines 337-338: log_active = False, last_stop_time = now
LogStopInactive ==
  /\ lc_pc = "inactive"
  /\ data_store' = StopLogStore(data_store)
  /\ lc_pc' = "idle"
  /\ UNCHANGED <<log_file, csv_writer, header_written, files, lg_pc,
                 obd, cfg_type, selected_pids, mock_data_mode, running, connection,
                 commands_to_query, groups, grp_idx, response, ds_before, replies, l_pc,
                 stop_called, interval_ms, cycle_ms, warnings, sleep_ms, connect_ok, s_pc,
                 stop_at, esp32_enabled, r_pc, r_len, group_delay_ms, group_sleeps,
                 bvars, pvars, wvars, fvars, kvars>>

\* run, line 637: the worker comes to the logging step of its cycle and
\* finds the log active
LogTest ==
  /\ lg_pc = "sleep"
  /\ data_store["log_active"]
  /\ RowsWritten(files, Len(files)) < MaxLogRows
  /\ lg_pc' = "hdrtest"
  /\ UNCHANGED <<data_store, log_file, csv_writer, header_written, files, lc_pc,
                 obd, cfg_type, selected_pids, mock_data_mode, running, connection,
                 commands_to_query, groups, grp_idx, response, ds_before, replies, l_pc,
                 stop_called, interval_ms, cycle_ms, warnings, sleep_ms, connect_ok, s_pc,
                 stop_at, esp32_enabled, r_pc, r_len, group_delay_ms, group_sleeps,
                 bvars, pvars, wvars, fvars, kvars>>

\* line 646: if not self.header_written
LogHeaderTest ==
  /\ lg_pc = "hdrtest"
  /\ lg_pc' = IF ~header_written THEN "hdr" ELSE "row"
  /\ UNCHANGED <<data_store, log_file, csv_writer, header_written, files, lc_pc,
                 obd, cfg_type, selected_pids, mock_data_mode, running, connection,
                 commands_to_query, groups, grp_idx, response, ds_before, replies, l_pc,
                 stop_called, interval_ms, cycle_ms, warnings, sleep_ms, connect_ok, s_pc,
                 stop_at, esp32_enabled, r_pc, r_len, group_delay_ms, group_sleeps,
                 bvars, pvars, wvars, fvars, kvars>>

\* line 706: self.csv_writer.writerow(header); a ValueError goes to the
\* except of line 863 and ends the step
LogHeaderWrite ==
  /\ lg_pc = "hdr"
  /\ files' = WriteRow(files, csv_writer, "header")
  /\ lg_pc' = IF files[csv_writer].closed THEN "sleep" ELSE "hdrset"
  /\ UNCHANGED <<data_store, log_file, csv_writer, header_written, lc_pc,
                 obd, cfg_type, selected_pids, mock_data_mode, running, connection,
                 commands_to_query, groups, grp_idx, response, ds_before, replies, l_pc,
                 stop_called, interval_ms, cycle_ms, warnings, sleep_ms, connect_ok, s_pc,
                 stop_at, esp32_enabled, r_pc, r_len, group_delay_ms, group_sleeps,
                 bvars, pvars, wvars, fvars, kvars>>

\* line 707: self.header_written = True
LogHeaderSet ==
  /\ lg_pc = "hdrset"
  /\ header_written' = TRUE
  /\ lg_pc' = "row"
  /\ UNCHANGED <<data_store, log_file, csv_writer, files, lc_pc,
                 obd, cfg_type, selected_pids, mock_data_mode, running, connection,
                 commands_to_query, groups, grp_idx, response, ds_before, replies, l_pc,
                 stop_called, interval_ms, cycle_ms, warnings, sleep_ms, connect_ok, s_pc,
                 stop_at, esp32_enabled, r_pc, r_len, group_delay_ms, group_sleeps,
                 bvars, pvars, wvars, fvars, kvars>>

\* lines 855-867: self.csv_writer.writerow(row_data), then the sleep of the
\* cycle
LogRowWrite ==
  /\ lg_pc = "row"
  /\ files' = WriteRow(files, csv_writer, "row")
  /\ lg_pc' = "sleep"
  /\ UNCHANGED <<data_store, log_file, csv_writer, header_written, lc_pc,
                 obd, cfg_type, selected_pids, mock_data_mode, running, connection,
                 commands_to_query, groups, grp_idx, response, ds_before, replies, l_pc,
                 stop_called, interval_ms, cycle_ms, warnings, sleep_ms, connect_ok, s_pc,
                 stop_at, esp32_enabled, r_pc, r_len, group_delay_ms, group_sleeps,
                 bvars, pvars, wvars, fvars, kvars>>

\* a logger with no PID selected, just constructed
InitLog ==
  /\ InitLogger
  /\ obd /\ cfg_type = "usb" /\ ~mock_data_mode
  /\ selected_pids = <<>>
  /\ interval_ms = 100
  /\ esp32_enabled = FALSE
  /\ group_delay_ms = 0

NextLog ==
  \/ LogStartTest \/ LogStartOpen \/ LogStartFlag \/ LogStartActive
  \/ LogStopTest \/ LogStopClose \/ LogStopInactive
  \/ LogTest \/ LogHeaderTest \/ LogHeaderWrite \/ LogHeaderSet \/ LogRowWrite
SpecLog == InitLog /\ [][NextLog]_vars

\* a file whose rows, if it has any, begin with the header and hold no
\* other header
HeaderFirstOnce(rows) ==
  IF rows = <<>> THEN TRUE
  ELSE rows[1] = "header" /\ \A i \in 2..Len(rows) : rows[i] = "row"

\* C37: in every file opened by start_log the header is the first row and
\* is written once, whatever the interleaving of start_log and stop_log with
\* the worker's logging step
C37_HeaderOnceBeforeRows == \A f \in DOMAIN files : HeaderFirstOnce(files[f].rows)

\* C37, second part: a step that adds a row to a file adds it to a file
\* that is not closed
C37_NoRowAfterClose ==
  [][\A f \in DOMAIN files :
       files'[f].rows # files[f].rows => ~files[f].closed]_vars

\* bool(x) of Python on what the store holds under esp32_online: the bools
\* themselves, and for a str ("str " followed by its text) whether it has
\* any text, so that the str "False" is true
PyBool(v) ==
  IF v = "bool True" THEN TRUE
  ELSE IF v = "bool False" THEN FALSE
  ELSE v # "str "

\* alldata, webapp.py line 331:
\* bool(datalogger_instance.data_store.get('esp32_online', False))
AllDataOnline(ds) == PyBool(DictGet(ds, "esp32_online", "bool False"))

\* C38: /alldata serves esp32_online true only when the latest
\* fetch_external_sensor_data saw a device answer 200 (and so stored
\* str(True)); after a fetch in which none answered it serves false
C38_OnlineOnlyAfterAnswer ==
  AllDataOnline(data_store) => data_store["esp32_online"] = "str True"

(***************************************************************************)
(* SpecFilter: one frame with a standard (11-bit) identifier, at the        *)
(* can_filters entry of --filter-responses and at the range test of         *)
(* send_and_listen                                                          *)
(***************************************************************************)
\* 'extended': False, line 91: identifiers of 11 bits, 0..0x7FF
MaxStdId == 2047
\* 'can_id': 0x7E8, line 91
FilterCanId == 2024
\* 'can_mask': 0x7F8, line 91
FilterCanMask == 2040

\* a & b of two naturals, bit by bit
RECURSIVE BitAnd(_, _)
BitAnd(a, b) ==
  IF a = 0 \/ b = 0 THEN 0
  ELSE (a % 2) * (b % 2) + 2 * BitAnd(a \div 2, b \div 2)

\* a filter whose mask leaves the bit of value 8 out (0x7F0)
HwAccepts_wide(id) ==
  BitAnd(id, FilterCanMask - 8) = BitAnd(FilterCanId, FilterCanMask - 8)

\* the can_filters entry of line 91 as SocketCAN applies it: a frame passes
\* when received_id & can_mask = can_id & can_mask
HwAccepts(id) == BitAnd(id, FilterCanMask) = BitAnd(FilterCanId, FilterCanMask)

InitFilter ==
  /\ k_id \in 0..MaxStdId
  /\ k_hw = FALSE /\ k_sw = FALSE /\ k_pc = "bus"
  /\ BatchIdle /\ ParseIdle /\ LoopIdle /\ WirelessIdle /\ ProbeIdle /\ LogIdle

\* the frame meets the filter set by can.Bus(..., can_filters=can_filters),
\* lines 91-95
FilterKernel ==
  /\ k_pc = "bus"
  /\ k_hw' = HwAccepts(k_id)
  /\ k_pc' = "kernel"
  /\ UNCHANGED <<k_id, k_sw, bvars, pvars, lvars, wvars, fvars, gvars>>

\* the frame meets the test of send_and_listen, line 69
FilterSoftware ==
  /\ k_pc = "kernel"
  /\ k_sw' = IsReplyId(k_id)
  /\ k_pc' = "done"
  /\ UNCHANGED <<k_id, k_hw, bvars, pvars, lvars, wvars, fvars, gvars>>

NextFilter == FilterKernel \/ FilterSoftware
SpecFilter == InitFilter /\ [][NextFilter]_vars

\* C39: for every 11-bit identifier the filter (id & 0x7F8 = 0x7E8) lets a
\* frame through exactly when the range test 0x7E8 <= id <= 0x7EF takes it
C39_FilterEqualsRange == k_pc = "done" => (k_hw <=> k_sw)

\* the last identifier of the range has met both tests and passed them
C39_Witness == k_pc = "done" /\ k_id = LastReplyId /\ k_hw /\ k_sw
====
